---- MODULE Spec2Model ----
(***************************************************************************)
(* A model of the JSON ingestion bridge (src/src/simdjson/bridge.cpp): the *)
(* token-stream flattener with its two paths (on-demand walk and tape walk *)
(* with a parallel byte cursor) and the fast-path query operators.         *)
(*                                                                         *)
(* A caller's buffer is represented by the document it spells (a tree of   *)
(* nodes that keep the source text of every token) together with the       *)
(* whitespace style it is written in; Bytes(input) are the bytes of the    *)
(* buffer.  The simdjson parsers are not part of bridge.cpp: they are      *)
(* modelled from the specification (sections 3 and 4.2).  Everything else  *)
(* follows bridge.cpp function by function.                                *)
(*                                                                         *)
(* The token stream is modelled record by record (tag plus payload), not   *)
(* byte by byte: emit_u8/emit_u32/emit_i64/emit_f64 append the fields of   *)
(* the record under construction.                                          *)
(***************************************************************************)
EXTENDS Integers, Sequences, FiniteSets, TLC

VARIABLES input, call, handle

vars == <<input, call, handle>>

(***************************************************************************)
(* Program constants.                                                      *)
(***************************************************************************)
TAG_NULL == 0
TAG_BOOL == 1
TAG_INT == 2
TAG_DOUBLE == 3
TAG_STRING == 4
TAG_ARRAY_START == 5
TAG_ARRAY_END == 6
TAG_OBJECT_START == 7
TAG_OBJECT_END == 8

MAX_DEPTH == 1024

(* simdjson::error_code values the bridge passes through as return codes. *)
SUCCESS == 0
TAPE_ERROR == 3
DEPTH_ERROR == 4
NUMBER_ERROR == 9
BIGINT_ERROR == 10
UNCLOSED_STRING == 15
INCORRECT_TYPE == 17
NO_SUCH_FIELD == 20

(***************************************************************************)
(* Bounds of the model.                                                    *)
(***************************************************************************)
(* Largest number of children of a generated array or object. *)
MaxKids == 2
(* Deep documents are nested up to MAX_DEPTH + DeepOver + 1 containers. *)
DeepOver == 1
(* Largest number of documents in a newline-delimited stream. *)
MaxDocs == 4
(* Number of buffers the caller fills in turn for one parser handle. *)
MaxBuffers == 3

(***************************************************************************)
(* Bytes.                                                                  *)
(***************************************************************************)
Digits == {"0", "1", "2", "3", "4", "5", "6", "7", "8", "9"}

DigitVal(c) ==
    CASE c = "0" -> 0 [] c = "1" -> 1 [] c = "2" -> 2 [] c = "3" -> 3
      [] c = "4" -> 4 [] c = "5" -> 5 [] c = "6" -> 6 [] c = "7" -> 7
      [] c = "8" -> 8 [] c = "9" -> 9

(* The zero byte of the padding that follows every input buffer. *)
NUL == "NUL"

(* *p for a pointer p into a padded buffer (1-based index). *)
At(buf, p) == IF p >= 1 /\ p <= Len(buf) THEN buf[p] ELSE NUL

Slice(buf, from, to) == [i \in 1..(to - from) |-> buf[from + i - 1]]

Repeat(c, k) == [i \in 1..k |-> c]

(***************************************************************************)
(* Decimal numbers too wide for the checker's integers are kept as digit   *)
(* sequences; a 64-bit value is a sign and a magnitude.                    *)
(***************************************************************************)
INT64_MAX_DIGITS ==
    <<"9","2","2","3","3","7","2","0","3","6","8","5","4","7","7","5","8","0","7">>
INT64_MIN_MAGNITUDE ==
    <<"9","2","2","3","3","7","2","0","3","6","8","5","4","7","7","5","8","0","8">>
UINT64_MAX_DIGITS ==
    <<"1","8","4","4","6","7","4","4","0","7","3","7","0","9","5","5","1","6","1","5">>

(* a <= b for two digit sequences without leading zeros. *)
DigitsLE(a, b) ==
    \/ Len(a) < Len(b)
    \/ /\ Len(a) = Len(b)
       /\ LET diff == {i \in 1..Len(a) : a[i] # b[i]}
          IN  \/ diff = {}
              \/ LET k == CHOOSE i \in diff : \A j \in diff : i <= j
                 IN  DigitVal(a[k]) < DigitVal(b[k])

(***************************************************************************)
(* Documents.  A node keeps the source text of its token:                  *)
(*   null, bool(b), num(text), str(raw): raw is the literal's body, with   *)
(*   its escape sequences; arr(kids); obj(fields), a field being a raw key *)
(*   and a value; bad(text, err): a malformed token the parsers reject     *)
(*   with err; nest(k, inner): inner wrapped in k one-element arrays, the  *)
(*   folded form of a run of k nested arrays "[[[ ... inner ... ]]]".      *)
(***************************************************************************)
NullNode == [t |-> "null"]
BoolNode(b) == [t |-> "bool", b |-> b]
NumNode(text) == [t |-> "num", text |-> text]
StrNode(raw) == [t |-> "str", raw |-> raw]
ArrNode(kids) == [t |-> "arr", kids |-> kids]
ObjNode(fields) == [t |-> "obj", fields |-> fields]
Field(key, val) == [key |-> key, val |-> val]
NestNode(k, inner) == [t |-> "nest", k |-> k, inner |-> inner]
BadNode(text, err) == [t |-> "bad", text |-> text, err |-> err]

RECURSIVE Flat(_)
Flat(ss) == IF ss = <<>> THEN <<>> ELSE Head(ss) \o Flat(Tail(ss))

(* Whitespace written after every token in the given style. *)
W(style) == IF style = "spaced" THEN <<" ">> ELSE <<>>

Quoted(raw) == <<"\"">> \o raw \o <<"\"">>

(* The source text of a scalar token. *)
TokenText(node) ==
    CASE node.t = "null" -> <<"n", "u", "l", "l">>
      [] node.t = "bool" -> IF node.b THEN <<"t", "r", "u", "e">>
                            ELSE <<"f", "a", "l", "s", "e">>
      [] node.t = "num" -> node.text
      [] node.t = "str" -> Quoted(node.raw)
      [] node.t = "bad" -> node.text

IsScalar(node) == node.t \in {"null", "bool", "num", "str", "bad"}

(* k brackets c, each followed by W(style). *)
Brackets(c, k, style) ==
    IF style = "spaced" THEN [i \in 1..(2 * k) |-> IF i % 2 = 1 THEN c ELSE " "]
    ELSE Repeat(c, k)

(* The bytes of the document: every token is followed by W(style). *)
RECURSIVE Render(_, _)
Render(node, style) ==
    CASE IsScalar(node) -> TokenText(node) \o W(style)
      [] node.t = "arr" ->
            <<"[">> \o W(style)
            \o Flat([i \in 1..Len(node.kids) |->
                        (IF i > 1 THEN <<",">> \o W(style) ELSE <<>>)
                        \o Render(node.kids[i], style)])
            \o <<"]">> \o W(style)
      [] node.t = "obj" ->
            <<"{">> \o W(style)
            \o Flat([i \in 1..Len(node.fields) |->
                        (IF i > 1 THEN <<",">> \o W(style) ELSE <<>>)
                        \o Quoted(node.fields[i].key) \o W(style)
                        \o <<":">> \o W(style)
                        \o Render(node.fields[i].val, style)])
            \o <<"}">> \o W(style)
      [] node.t = "nest" ->
            Brackets("[", node.k, style)
            \o Render(node.inner, style)
            \o Brackets("]", node.k, style)

(* The caller's buffer: buf[0..len), followed by the zero padding. *)
Bytes(in) == Render(in.doc, in.style)

(***************************************************************************)
(* The parsers' view of strings and numbers (specification, section 3).    *)
(***************************************************************************)
(* The unescaped bytes of a string literal's body. *)
RECURSIVE Unescape(_)
Unescape(raw) ==
    IF raw = <<>> THEN <<>>
    ELSE IF Head(raw) = "\\" /\ Len(raw) >= 2
         THEN LET c == raw[2]
                  u == CASE c = "n" -> "\n"
                         [] c = "t" -> "\t"
                         [] c = "r" -> "\r"
                         [] OTHER -> c
              IN  <<u>> \o Unescape(SubSeq(raw, 3, Len(raw)))
         ELSE <<Head(raw)>> \o Unescape(Tail(raw))

IsNegative(text) == text # <<>> /\ text[1] = "-"

Magnitude(text) == IF IsNegative(text) THEN Tail(text) ELSE text

IsIntegerLiteral(text) ==
    /\ Magnitude(text) # <<>>
    /\ \A i \in 1..Len(Magnitude(text)) : Magnitude(text)[i] \in Digits

(* number_type of a valid number literal. *)
NumberType(text) ==
    IF ~IsIntegerLiteral(text) THEN "floating_point_number"
    ELSE IF IsNegative(text)
         THEN IF DigitsLE(Magnitude(text), INT64_MIN_MAGNITUDE)
              THEN "signed_integer" ELSE "big_integer"
         ELSE IF DigitsLE(text, INT64_MAX_DIGITS) THEN "signed_integer"
              ELSE IF DigitsLE(text, UINT64_MAX_DIGITS) THEN "unsigned_integer"
              ELSE "big_integer"

(* The 64-bit integer an integer literal denotes: sign and magnitude. *)
IntValue(text) ==
    [neg |-> IsNegative(text) /\ Magnitude(text) # <<"0">>, mag |-> Magnitude(text)]

(* Leading and trailing zeros dropped from a digit sequence. *)
RECURSIVE StripLeft(_)
StripLeft(ds) == IF ds # <<>> /\ Head(ds) = "0" THEN StripLeft(Tail(ds)) ELSE ds

RECURSIVE StripRight(_)
StripRight(ds) ==
    IF ds # <<>> /\ ds[Len(ds)] = "0" THEN StripRight(SubSeq(ds, 1, Len(ds) - 1))
    ELSE ds

RECURSIVE DigitsToNat(_)
DigitsToNat(ds) ==
    IF ds = <<>> THEN 0
    ELSE 10 * DigitsToNat(SubSeq(ds, 1, Len(ds) - 1)) + DigitVal(ds[Len(ds)])

FirstIndex(text, set) ==
    LET hits == {i \in 1..Len(text) : text[i] \in set}
    IN  IF hits = {} THEN Len(text) + 1
        ELSE CHOOSE i \in hits : \A j \in hits : i <= j

(* The double a decimal text denotes (decimal-to-double conversion), kept  *)
(* as the exact decimal value: sign, significant digits and the power of   *)
(* ten of the last one.  Rounding to 53 bits is the same for every caller  *)
(* and is left out.                                                        *)
DoubleValue(text) ==
    LET body == IF text # <<>> /\ text[1] \in {"-", "+"} THEN Tail(text) ELSE text
        ePos == FirstIndex(body, {"e", "E"})
        mant == SubSeq(body, 1, ePos - 1)
        expo == SubSeq(body, ePos + 1, Len(body))
        expNeg == expo # <<>> /\ expo[1] = "-"
        expDs == IF expo # <<>> /\ expo[1] \in {"-", "+"} THEN Tail(expo) ELSE expo
        e10 == IF expNeg THEN 0 - DigitsToNat(expDs) ELSE DigitsToNat(expDs)
        dot == FirstIndex(mant, {"."})
        ip == SubSeq(mant, 1, dot - 1)
        fr == SubSeq(mant, dot + 1, Len(mant))
        all == StripLeft(ip \o fr)
        sig == StripRight(all)
    IN  IF sig = <<>> THEN [neg |-> IsNegative(text), sig |-> <<>>, exp |-> 0]
        ELSE [neg |-> IsNegative(text), sig |-> sig,
              exp |-> e10 - Len(fr) + (Len(all) - Len(sig))]

(***************************************************************************)
(* The on-demand parser (specification, section 4.2): a forward cursor     *)
(* over the buffer that materializes values on access and reports a        *)
(* malformed token when the walk reaches it.  An ondemand::value is the    *)
(* node under the cursor and the style of the buffer it reads.             *)
(***************************************************************************)
OdValue(node, style) == [node |-> node, style |-> style]

(* Errors of the structural scan: an unclosed string fails iterate(). *)
RECURSIVE HasUnclosedString(_)
HasUnclosedString(node) ==
    CASE node.t = "bad" -> node.err = UNCLOSED_STRING
      [] node.t = "arr" -> \E i \in 1..Len(node.kids) : HasUnclosedString(node.kids[i])
      [] node.t = "obj" ->
            \E i \in 1..Len(node.fields) : HasUnclosedString(node.fields[i].val)
      [] node.t = "nest" -> HasUnclosedString(node.inner)
      [] OTHER -> FALSE

(* parser.iterate(padded): the error code of the structural scan. *)
OndemandIterate(in) == IF HasUnclosedString(in.doc) THEN UNCLOSED_STRING ELSE SUCCESS

(* value.type(): the json_type read off the token's first byte, or an error. *)
OdType(val) ==
    LET n == val.node
    IN  CASE n.t = "null" -> [err |-> SUCCESS, type |-> "null"]
          [] n.t = "bool" -> [err |-> SUCCESS, type |-> "boolean"]
          [] n.t = "num" -> [err |-> SUCCESS, type |-> "number"]
          [] n.t = "str" -> [err |-> SUCCESS, type |-> "string"]
          [] n.t \in {"arr", "nest"} -> [err |-> SUCCESS, type |-> "array"]
          [] n.t = "obj" -> [err |-> SUCCESS, type |-> "object"]
          [] n.t = "bad" ->
                IF n.err = NUMBER_ERROR THEN [err |-> SUCCESS, type |-> "number"]
                ELSE [err |-> n.err, type |-> "unknown"]

(* value.raw_json_token(): the token's bytes up to the next structural     *)
(* character, trailing whitespace included.                                *)
RawJsonToken(val) == TokenText(val.node) \o W(val.style)

(* value.get_number(): a classified number, BIGINT_ERROR for an integer    *)
(* beyond 64 bits, NUMBER_ERROR for a malformed literal.                   *)
GetNumber(val) ==
    LET n == val.node
    IN  IF n.t = "bad" THEN [err |-> NUMBER_ERROR, type |-> "none", text |-> n.text]
        ELSE IF NumberType(n.text) = "big_integer"
             THEN [err |-> BIGINT_ERROR, type |-> "big_integer", text |-> n.text]
             ELSE [err |-> SUCCESS, type |-> NumberType(n.text), text |-> n.text]

(***************************************************************************)
(* Token records and the emitters.                                         *)
(***************************************************************************)
EmitNull(out) == Append(out, [tag |-> TAG_NULL])

EmitBool(out, b) == Append(out, [tag |-> TAG_BOOL, v |-> IF b THEN 1 ELSE 0])

EmitInt(out, v) == Append(out, [tag |-> TAG_INT, v |-> v])

EmitString(out, sv) == Append(out, [tag |-> TAG_STRING, len |-> Len(sv), bytes |-> sv])

(* tag, then emit_u32(out, 0): the record whose count is patched on close. *)
EmitStart(out, tag) == Append(out, [tag |-> tag, n |-> 0])

EmitEnd(out, tag) == Append(out, [tag |-> tag])

is_number_char(c) == c \in Digits \/ c \in {".", "-", "+", "e", "E"}

(* Mutant: the raw token is kept whole. *)
trim_number_len_none(raw) == Len(raw)

RECURSIVE trim_number_len_from(_, _, _)
trim_number_len_from(raw, i, len) ==
    IF i > Len(raw) THEN len
    ELSE IF is_number_char(raw[i]) THEN trim_number_len_from(raw, i + 1, i)
         ELSE len

trim_number_len(raw) == trim_number_len_from(raw, 1, 0)

emit_double_with_raw(out, v, raw) ==
    LET raw_len == trim_number_len(raw)
    IN  Append(out, [tag |-> TAG_DOUBLE, v |-> v, rawLen |-> raw_len,
                     raw |-> SubSeq(raw, 1, raw_len)])

(* Mutant: the count slot is never rewritten. *)
patch_u32_lost(out, pos, v) == out

patch_u32(out, pos, v) == [out EXCEPT ![pos] = [@ EXCEPT !.n = v]]

emit_number_or_bigint(out, raw) ==
    LET raw_len == trim_number_len(raw)
        tmp == SubSeq(raw, 1, raw_len)
        d == DoubleValue(tmp)
    IN  emit_double_with_raw(out, d, raw)

(* Mutant: the bound compared against is UINT64_MAX. *)
FitsInt64_wide(u) == DigitsLE(u, UINT64_MAX_DIGITS)

(* u <= INT64_MAX for the uint64 an unsigned literal denotes. *)
FitsInt64(u) == DigitsLE(u, INT64_MAX_DIGITS)

emit_number(out, raw, num) ==
    CASE num.type = "signed_integer" -> EmitInt(out, IntValue(num.text))
      [] num.type = "unsigned_integer" ->
            IF FitsInt64(num.text) THEN EmitInt(out, IntValue(num.text))
            ELSE emit_double_with_raw(out, DoubleValue(num.text), raw)
      [] num.type \in {"floating_point_number", "big_integer"} ->
            emit_double_with_raw(out, DoubleValue(num.text), raw)

(***************************************************************************)
(* Path A: the on-demand walk.  A walk returns the token vector and the    *)
(* error it threw (SUCCESS when it returned normally).                     *)
(***************************************************************************)
Walked(out, err) == [out |-> out, err |-> err]

(* The depth guard at the head of flatten_ondemand and walk_element. *)
DepthExceeded(depth) == depth > MAX_DEPTH

(* The scalar cases of the type switch (the same cases are written out for *)
(* a scalar document in jx_dom_to_flat).                                   *)
FlattenScalar(out, val, type) ==
    CASE type = "null" -> Walked(EmitNull(out), SUCCESS)
      [] type = "boolean" -> Walked(EmitBool(out, val.node.b), SUCCESS)
      [] type = "number" ->
            LET raw == RawJsonToken(val)
                num_result == GetNumber(val)
            IN  IF num_result.err = BIGINT_ERROR
                THEN Walked(emit_number_or_bigint(out, raw), SUCCESS)
                ELSE IF num_result.err # SUCCESS THEN Walked(out, num_result.err)
                     ELSE Walked(emit_number(out, raw, num_result), SUCCESS)
      [] type = "string" -> Walked(EmitString(out, Unescape(val.node.raw)), SUCCESS)

RECURSIVE flatten_ondemand(_, _, _)
RECURSIVE FlattenElements(_, _, _, _, _)
RECURSIVE FlattenFields(_, _, _, _, _)

(* for (auto element : val.get_array()) { flatten; count++ } *)
FlattenElements(out, val, i, count, depth) ==
    IF i > Len(val.node.kids) THEN [out |-> out, err |-> SUCCESS, count |-> count]
    ELSE LET r == flatten_ondemand(out, OdValue(val.node.kids[i], val.style), depth + 1)
         IN  IF r.err # SUCCESS THEN [out |-> r.out, err |-> r.err, count |-> count]
             ELSE FlattenElements(r.out, val, i + 1, count + 1, depth)

(* Mutant: the key is emitted after its value. *)
FlattenFields_value_first(out, val, i, count, depth) ==
    IF i > Len(val.node.fields) THEN [out |-> out, err |-> SUCCESS, count |-> count]
    ELSE LET f == val.node.fields[i]
             r == flatten_ondemand(out, OdValue(f.val, val.style), depth + 1)
         IN  IF r.err # SUCCESS THEN [out |-> r.out, err |-> r.err, count |-> count]
             ELSE FlattenFields(EmitString(r.out, Unescape(f.key)), val, i + 1,
                                count + 1, depth)

(* for (auto field : val.get_object()) { key; flatten; count++ } *)
FlattenFields(out, val, i, count, depth) ==
    IF i > Len(val.node.fields) THEN [out |-> out, err |-> SUCCESS, count |-> count]
    ELSE LET f == val.node.fields[i]
             keyed == EmitString(out, Unescape(f.key))
             r == flatten_ondemand(keyed, OdValue(f.val, val.style), depth + 1)
         IN  IF r.err # SUCCESS THEN [out |-> r.out, err |-> r.err, count |-> count]
             ELSE FlattenFields(r.out, val, i + 1, count + 1, depth)

flatten_ondemand(out, val, depth) ==
    IF DepthExceeded(depth) THEN Walked(out, DEPTH_ERROR)
    ELSE
    LET type == OdType(val)
    IN  IF type.err # SUCCESS THEN Walked(out, type.err)
        ELSE IF val.node.t = "arr" THEN
            LET started == EmitStart(out, TAG_ARRAY_START)
                count_pos == Len(started)
                loop == FlattenElements(started, val, 1, 0, depth)
            IN  IF loop.err # SUCCESS THEN Walked(loop.out, loop.err)
                ELSE Walked(EmitEnd(patch_u32(loop.out, count_pos, loop.count),
                                    TAG_ARRAY_END), SUCCESS)
        ELSE IF val.node.t = "obj" THEN
            LET started == EmitStart(out, TAG_OBJECT_START)
                count_pos == Len(started)
                loop == FlattenFields(started, val, 1, 0, depth)
            IN  IF loop.err # SUCCESS THEN Walked(loop.out, loop.err)
                ELSE Walked(EmitEnd(patch_u32(loop.out, count_pos, loop.count),
                                    TAG_OBJECT_END), SUCCESS)
        ELSE IF val.node.t = "nest" THEN
            (* k nested calls of the array case, each with one element: the *)
            (* calls run at depth, depth + 1, ..., depth + k - 1, and the   *)
            (* deepest guard decides whether any of them throws.            *)
            LET k == val.node.k
            IN  IF DepthExceeded(depth + k - 1) THEN Walked(out, DEPTH_ERROR)
                ELSE LET started == out \o Repeat([tag |-> TAG_ARRAY_START, n |-> 0], k)
                         r == flatten_ondemand(started,
                                               OdValue(val.node.inner, val.style),
                                               depth + k)
                         patched == [i \in 1..Len(r.out) |->
                                        IF i > Len(out) /\ i <= Len(out) + k
                                        THEN patch_u32(r.out, i, 1)[i]
                                        ELSE r.out[i]]
                     IN  IF r.err # SUCCESS THEN r
                         ELSE Walked(patched \o Repeat([tag |-> TAG_ARRAY_END], k),
                                     SUCCESS)
        ELSE FlattenScalar(out, val, type.type)

(* What a call hands back: the return code and, when it wrote them, the    *)
(* caller's *out_ptr and *out_len.                                         *)
Returned(code) == [code |-> code, written |-> FALSE, out_ptr |-> <<>>, out_len |-> 0]

ReturnedBuffer(buffer) ==
    [code |-> 0, written |-> TRUE, out_ptr |-> buffer, out_len |-> Len(buffer)]

(* Mutant: the vector is copied out before the walk's error is looked at. *)
jx_dom_to_flat_partial(in) ==
    LET iterated == OndemandIterate(in)
        doc == OdValue(in.doc, in.style)
        type == OdType(doc)
        r == IF type.type \in {"array", "object"}
             THEN flatten_ondemand(<<>>, doc, 0)
             ELSE FlattenScalar(<<>>, doc, type.type)
    IN  IF iterated # SUCCESS THEN Returned(iterated)
        ELSE IF type.err # SUCCESS THEN Returned(type.err)
        ELSE [code |-> r.err, written |-> TRUE, out_ptr |-> r.out, out_len |-> Len(r.out)]

jx_dom_to_flat(in) ==
    LET iterated == OndemandIterate(in)
        doc == OdValue(in.doc, in.style)
        type == OdType(doc)
        r == IF type.type \in {"array", "object"}
             THEN flatten_ondemand(<<>>, doc, 0)
             ELSE FlattenScalar(<<>>, doc, type.type)
    IN  IF iterated # SUCCESS THEN Returned(iterated)
        ELSE IF type.err # SUCCESS THEN Returned(type.err)
        ELSE IF r.err # SUCCESS THEN Returned(r.err)
        ELSE ReturnedBuffer(r.out)

(***************************************************************************)
(* The tape parser (specification, sections 3 and 4.2): it validates the   *)
(* whole document before any descent, classifies numbers without keeping   *)
(* their text, rejects an integer beyond 64 bits and bounds the nesting    *)
(* depth at the engine's limit.  A dom::element is a node of the document. *)
(***************************************************************************)
(* The first nonzero code of a sequence of codes. *)
FirstError(errs) ==
    LET bad == {i \in 1..Len(errs) : errs[i] # SUCCESS}
    IN  IF bad = {} THEN SUCCESS
        ELSE errs[CHOOSE i \in bad : \A j \in bad : i <= j]

(* The first error met reading the document in order; depth counts the     *)
(* containers open around the node.                                        *)
RECURSIVE DomValidate(_, _)
DomValidate(node, depth) ==
    CASE node.t = "bad" -> node.err
      [] node.t = "num" ->
            IF NumberType(node.text) = "big_integer" THEN BIGINT_ERROR ELSE SUCCESS
      [] node.t = "arr" ->
            IF depth + 1 > MAX_DEPTH THEN DEPTH_ERROR
            ELSE FirstError([i \in 1..Len(node.kids) |->
                                DomValidate(node.kids[i], depth + 1)])
      [] node.t = "obj" ->
            IF depth + 1 > MAX_DEPTH THEN DEPTH_ERROR
            ELSE FirstError([i \in 1..Len(node.fields) |->
                                DomValidate(node.fields[i].val, depth + 1)])
      [] node.t = "nest" ->
            IF depth + node.k > MAX_DEPTH THEN DEPTH_ERROR
            ELSE DomValidate(node.inner, depth + node.k)
      [] OTHER -> SUCCESS

(* parser.parse(buf, len): the error code; on SUCCESS the root element is  *)
(* the document.                                                           *)
DomParse(in) ==
    IF HasUnclosedString(in.doc) THEN UNCLOSED_STRING ELSE DomValidate(in.doc, 0)

(* elem.type() *)
DomType(elem) ==
    CASE elem.t = "str" -> "STRING"
      [] elem.t = "num" ->
            (CASE NumberType(elem.text) = "signed_integer" -> "INT64"
               [] NumberType(elem.text) = "unsigned_integer" -> "UINT64"
               [] OTHER -> "DOUBLE")
      [] elem.t = "bool" -> "BOOL"
      [] elem.t = "null" -> "NULL_VALUE"
      [] elem.t \in {"arr", "nest"} -> "ARRAY"
      [] elem.t = "obj" -> "OBJECT"

(***************************************************************************)
(* Path B: the tape walk with a parallel byte cursor.  cursor is a 1-based *)
(* index into buf; reads past the end see the zero padding.                *)
(***************************************************************************)
RECURSIVE advance_cursor(_, _)
advance_cursor(buf, cursor) ==
    IF At(buf, cursor) \in {" ", "\n", "\r", "\t", ",", ":"}
    THEN advance_cursor(buf, cursor + 1)
    ELSE cursor

(* The loop of skip_json_string: up to the closing quote, an escaped byte  *)
(* skipped with its backslash.  The scan is cut off at the end of buffer.  *)
RECURSIVE SkipStringBody(_, _)
SkipStringBody(buf, cursor) ==
    IF At(buf, cursor) = "\"" \/ cursor > Len(buf) THEN cursor
    ELSE IF At(buf, cursor) = "\\" THEN SkipStringBody(buf, cursor + 2)
         ELSE SkipStringBody(buf, cursor + 1)

(* Mutant: the literal ends at the first quote, escaped or not. *)
skip_json_string_any_quote(buf, cursor) ==
    LET quotes == {i \in (cursor + 1)..(Len(buf) + 1) : At(buf, i) \in {"\"", NUL}}
    IN  (CHOOSE i \in quotes : \A j \in quotes : i <= j) + 1

skip_json_string(buf, cursor) == SkipStringBody(buf, cursor + 1) + 1

RECURSIVE SkipDigits(_, _)
SkipDigits(buf, cursor) ==
    IF At(buf, cursor) \in Digits THEN SkipDigits(buf, cursor + 1) ELSE cursor

RECURSIVE SkipNumberChars(_, _)
SkipNumberChars(buf, cursor) ==
    IF is_number_char(At(buf, cursor)) THEN SkipNumberChars(buf, cursor + 1)
    ELSE cursor

(* A tape walk returns the token vector, the cursor, the error thrown and  *)
(* whether every assert on the cursor held.                                *)
WalkedTo(flat, cursor, err, sync) ==
    [flat |-> flat, cursor |-> cursor, err |-> err, sync |-> sync]

RECURSIVE walk_element(_, _, _, _, _)
RECURSIVE WalkChildren(_, _, _, _, _, _, _, _)
RECURSIVE WalkFields(_, _, _, _, _, _, _, _)

(* for (dom::element child : dom::array(elem)) { walk; count++ } *)
WalkChildren(flat, elem, buf, cursor, i, count, depth, sync) ==
    IF i > Len(elem.kids)
    THEN [flat |-> flat, cursor |-> cursor, err |-> SUCCESS, sync |-> sync,
          count |-> count]
    ELSE LET r == walk_element(flat, elem.kids[i], buf, cursor, depth + 1)
         IN  IF r.err # SUCCESS
             THEN [flat |-> r.flat, cursor |-> r.cursor, err |-> r.err,
                   sync |-> sync /\ r.sync, count |-> count]
             ELSE WalkChildren(r.flat, elem, buf, r.cursor, i + 1, count + 1, depth,
                               sync /\ r.sync)

(* for (auto field : dom::object(elem)) { skip key; walk; count++ } *)
WalkFields(flat, elem, buf, cursor, i, count, depth, sync) ==
    IF i > Len(elem.fields)
    THEN [flat |-> flat, cursor |-> cursor, err |-> SUCCESS, sync |-> sync,
          count |-> count]
    ELSE LET at_key == advance_cursor(buf, cursor)
             past_key == skip_json_string(buf, at_key)
             keyed == EmitString(flat, Unescape(elem.fields[i].key))
             r == walk_element(keyed, elem.fields[i].val, buf, past_key, depth + 1)
             ok == sync /\ At(buf, at_key) = "\"" /\ r.sync
         IN  IF r.err # SUCCESS
             THEN [flat |-> r.flat, cursor |-> r.cursor, err |-> r.err,
                   sync |-> ok, count |-> count]
             ELSE WalkFields(r.flat, elem, buf, r.cursor, i + 1, count + 1, depth, ok)

walk_element(flat, elem, buf, cursor0, depth) ==
    IF DepthExceeded(depth) THEN WalkedTo(flat, cursor0, DEPTH_ERROR, TRUE)
    ELSE
    LET cursor == advance_cursor(buf, cursor0)
        type == DomType(elem)
    IN  CASE type = "STRING" ->
                WalkedTo(EmitString(flat, Unescape(elem.raw)),
                         skip_json_string(buf, cursor), SUCCESS,
                         At(buf, cursor) = "\"")
          [] type = "INT64" ->
                LET digits == IF At(buf, cursor) = "-" THEN cursor + 1 ELSE cursor
                IN  WalkedTo(EmitInt(flat, IntValue(elem.text)),
                             SkipDigits(buf, digits), SUCCESS, TRUE)
          [] type = "UINT64" ->
                LET start == cursor
                    end == SkipDigits(buf, cursor)
                    raw == Slice(buf, start, end)
                IN  IF FitsInt64(elem.text)
                    THEN WalkedTo(EmitInt(flat, IntValue(elem.text)), end, SUCCESS, TRUE)
                    ELSE WalkedTo(emit_double_with_raw(flat, DoubleValue(elem.text), raw),
                                  end, SUCCESS, TRUE)
          [] type = "DOUBLE" ->
                LET start == cursor
                    end == SkipNumberChars(buf, cursor)
                    raw == Slice(buf, start, end)
                IN  WalkedTo(emit_double_with_raw(flat, DoubleValue(elem.text), raw),
                             end, SUCCESS, TRUE)
          [] type = "BOOL" ->
                WalkedTo(EmitBool(flat, elem.b), cursor + (IF elem.b THEN 4 ELSE 5),
                         SUCCESS, TRUE)
          [] type = "NULL_VALUE" ->
                WalkedTo(EmitNull(flat), cursor + 4, SUCCESS, TRUE)
          [] type = "ARRAY" /\ elem.t = "arr" ->
                LET started == EmitStart(flat, TAG_ARRAY_START)
                    count_pos == Len(started)
                    loop == WalkChildren(started, elem, buf, cursor + 1, 1, 0, depth,
                                         At(buf, cursor) = "[")
                    close == advance_cursor(buf, loop.cursor)
                IN  IF loop.err # SUCCESS
                    THEN WalkedTo(loop.flat, loop.cursor, loop.err, loop.sync)
                    ELSE WalkedTo(EmitEnd(patch_u32(loop.flat, count_pos, loop.count),
                                          TAG_ARRAY_END),
                                  close + 1, SUCCESS,
                                  loop.sync /\ At(buf, close) = "]")
          [] type = "ARRAY" /\ elem.t = "nest" ->
                (* k nested calls of the ARRAY case, each with one child: the *)
                (* brackets of the run are evenly spaced in the buffer.       *)
                LET k == elem.k
                    step == advance_cursor(buf, cursor + 1) - cursor
                    opened == cursor + (k - 1) * step + 1
                    started == flat \o Repeat([tag |-> TAG_ARRAY_START, n |-> 0], k)
                    r == walk_element(started, elem.inner, buf, opened, depth + k)
                    close == advance_cursor(buf, r.cursor)
                    back == advance_cursor(buf, close + 1) - close
                    patched == [i \in 1..Len(r.flat) |->
                                   IF i > Len(flat) /\ i <= Len(flat) + k
                                   THEN patch_u32(r.flat, i, 1)[i]
                                   ELSE r.flat[i]]
                    sync == /\ \A j \in 1..k : At(buf, cursor + (j - 1) * step) = "["
                            /\ r.sync
                            /\ \A j \in 1..k : At(buf, close + (j - 1) * back) = "]"
                IN  IF DepthExceeded(depth + k - 1)
                    THEN WalkedTo(flat, cursor, DEPTH_ERROR, TRUE)
                    ELSE IF r.err # SUCCESS THEN r
                    ELSE WalkedTo(patched \o Repeat([tag |-> TAG_ARRAY_END], k),
                                  close + (k - 1) * back + 1, SUCCESS, sync)
          [] type = "OBJECT" ->
                LET started == EmitStart(flat, TAG_OBJECT_START)
                    count_pos == Len(started)
                    loop == WalkFields(started, elem, buf, cursor + 1, 1, 0, depth,
                                       At(buf, cursor) = "{")
                    close == advance_cursor(buf, loop.cursor)
                IN  IF loop.err # SUCCESS
                    THEN WalkedTo(loop.flat, loop.cursor, loop.err, loop.sync)
                    ELSE WalkedTo(EmitEnd(patch_u32(loop.flat, count_pos, loop.count),
                                          TAG_OBJECT_END),
                                  close + 1, SUCCESS,
                                  loop.sync /\ At(buf, close) = "}")

(* Mutant: only BIGINT_ERROR sends the call to path A. *)
IsBigNumberError_bigint_only(err) == err = BIGINT_ERROR

(* The tape-parser errors that send jx_dom_to_flat_via_tape to path A. *)
IsBigNumberError(err) == err = NUMBER_ERROR \/ err = BIGINT_ERROR

(* The result, and the path that produced it. *)
jx_dom_to_flat_via_tape(in) ==
    LET err == DomParse(in)
        r == walk_element(<<>>, in.doc, Bytes(in), 1, 0)
    IN  IF err # SUCCESS
        THEN IF IsBigNumberError(err)
             THEN [ret |-> jx_dom_to_flat(in), path |-> "ondemand", cursor |-> 0,
                   sync |-> TRUE]
             ELSE [ret |-> Returned(err), path |-> "none", cursor |-> 0, sync |-> TRUE]
        ELSE [ret |-> IF r.err # SUCCESS THEN Returned(r.err) ELSE ReturnedBuffer(r.flat),
              path |-> "tape", cursor |-> r.cursor, sync |-> r.sync]

(***************************************************************************)
(* Fast-path operators: field navigation on the tape and on the on-demand  *)
(* cursor.  A chain is the sequence of keys fields[0..field_count).        *)
(***************************************************************************)
(* result.at_key(key): the first field whose unescaped key equals key. *)
DomAtKey(elem, key) ==
    LET hits == {i \in 1..Len(elem.fields) : Unescape(elem.fields[i].key) = key}
    IN  IF hits = {} THEN [found |-> FALSE, value |-> elem]
        ELSE [found |-> TRUE,
              value |-> elem.fields[CHOOSE i \in hits : \A j \in hits : i <= j].val]

(* for (i = 0; i < field_count; i++) { type check; at_key } *)
RECURSIVE NavigateFrom(_, _, _)
NavigateFrom(result, chain, i) ==
    IF i > Len(chain) THEN [nav |-> 0, result |-> result]
    ELSE IF DomType(result) # "OBJECT" THEN [nav |-> 1, result |-> result]
    ELSE LET r == DomAtKey(result, chain[i])
         IN  IF ~r.found THEN [nav |-> 1, result |-> result]
             ELSE NavigateFrom(r.value, chain, i + 1)

(* 0 = found, 1 = null, 2 = parse failed *)
navigate_fields(in, chain) ==
    IF DomParse(in) # SUCCESS THEN [nav |-> 2, result |-> in.doc]
    ELSE NavigateFrom(in.doc, chain, 1)

(* find_field(key) on the on-demand cursor: the value must be an object;   *)
(* the first field whose key bytes, as written in the buffer, equal key.   *)
(* Values of the fields passed over are skipped without being read.        *)
OdFindField(val, key) ==
    IF val.node.t # "obj" THEN [found |-> FALSE, value |-> val]
    ELSE LET fs == val.node.fields
             hits == {i \in 1..Len(fs) : fs[i].key = key}
         IN  IF hits = {} THEN [found |-> FALSE, value |-> val]
             ELSE [found |-> TRUE,
                   value |-> OdValue(fs[CHOOSE i \in hits : \A j \in hits : i <= j].val,
                                     val.style)]

(* value.raw_json(): the bytes from the value's first byte up to the next  *)
(* token; a container is skipped by its brackets, a scalar is its token.   *)
OdRawJson(val) ==
    IF OdType(val).err # SUCCESS THEN [err |-> OdType(val).err, raw |-> <<>>]
    ELSE [err |-> SUCCESS, raw |-> Render(val.node, val.style)]

(* for (i = 1; i < field_count; i++) { get_object; find_field } *)
RECURSIVE NavigateRawFrom(_, _, _)
NavigateRawFrom(current, chain, i) ==
    IF i > Len(chain)
    THEN LET raw_result == OdRawJson(current)
         IN  IF raw_result.err # SUCCESS THEN [nav |-> 2, raw |-> <<>>]
             ELSE [nav |-> 0, raw |-> raw_result.raw]
    ELSE LET r == OdFindField(current, chain[i])
         IN  IF ~r.found THEN [nav |-> 1, raw |-> <<>>]
             ELSE NavigateRawFrom(r.value, chain, i + 1)

(* fields[0] is read whatever field_count is: with an empty chain the read *)
(* is outside the caller's array and yields the key `stray`.               *)
navigate_fields_raw(in, chain, stray) ==
    LET key0 == IF Len(chain) >= 1 THEN chain[1] ELSE stray
        r == OdFindField(OdValue(in.doc, in.style), key0)
    IN  IF OndemandIterate(in) # SUCCESS THEN [nav |-> 2, raw |-> <<>>]
        ELSE IF ~r.found THEN [nav |-> 1, raw |-> <<>>]
        ELSE NavigateRawFrom(r.value, chain, 2)

RECURSIVE trim_raw_json(_)
trim_raw_json(raw) ==
    IF raw # <<>> /\ raw[Len(raw)] \in {" ", "\n", "\r", "\t", ","}
    THEN trim_raw_json(SubSeq(raw, 1, Len(raw) - 1))
    ELSE raw

(* *out_ptr = nullptr: no buffer. *)
NULLPTR == <<"nullptr">>

(* A call that wrote *out_ptr and *out_len. *)
Wrote(ptr, len) == [code |-> 0, written |-> TRUE, out_ptr |-> ptr, out_len |-> len]

jx_dom_find_field_raw(in, chain, stray) ==
    LET r == navigate_fields_raw(in, chain, stray)
        raw == trim_raw_json(r.raw)
    IN  IF r.nav = 2 THEN Returned(-1)
        ELSE IF r.nav = 1 THEN Wrote(<<"n", "u", "l", "l">>, 4)
        ELSE Wrote(raw, Len(raw))

(* std::to_string of a non-negative length *)
RECURSIVE to_string(_)
to_string(n) ==
    LET d == CHOOSE c \in Digits : DigitVal(c) = n % 10
    IN  IF n < 10 THEN <<d>> ELSE to_string(n \div 10) \o <<d>>

(* array.size(), object.size() *)
DomSize(elem) ==
    CASE elem.t = "arr" -> Len(elem.kids)
      [] elem.t = "obj" -> Len(elem.fields)
      [] elem.t = "nest" -> 1

(* Mutant: a string's length is the length of its text in the buffer. *)
jx_dom_field_length_raw(in, chain) ==
    LET r == navigate_fields(in, chain)
        type == DomType(r.result)
        s == to_string(CASE type \in {"ARRAY", "OBJECT"} -> DomSize(r.result)
                         [] type = "STRING" -> Len(r.result.raw)
                         [] OTHER -> 0)
    IN  IF r.nav = 2 THEN Returned(-1)
        ELSE IF r.nav = 1 THEN Wrote(<<"0">>, 1)
        ELSE IF type \in {"ARRAY", "OBJECT", "STRING", "NULL_VALUE"}
             THEN Wrote(s, Len(s))
             ELSE Wrote(NULLPTR, -2)

jx_dom_field_length(in, chain) ==
    LET r == navigate_fields(in, chain)
        type == DomType(r.result)
        s == to_string(CASE type \in {"ARRAY", "OBJECT"} -> DomSize(r.result)
                         [] type = "STRING" -> Len(Unescape(r.result.raw))
                         [] OTHER -> 0)
    IN  IF r.nav = 2 THEN Returned(-1)
        ELSE IF r.nav = 1 THEN Wrote(<<"0">>, 1)
        ELSE IF type \in {"ARRAY", "OBJECT", "STRING", "NULL_VALUE"}
             THEN Wrote(s, Len(s))
             ELSE Wrote(NULLPTR, -2)

(* The byte value of a character, for the bytes that occur in keys. *)
CharCode(c) ==
    CASE c = "\t" -> 9 [] c = "\n" -> 10 [] c = "\r" -> 13 [] c = " " -> 32
      [] c = "\"" -> 34 [] c = "Z" -> 90 [] c = "\\" -> 92 [] c = "a" -> 97
      [] c = "b" -> 98 [] c = "k" -> 107 [] c = "n" -> 110 [] c = "q" -> 113
      [] c = "x" -> 120 [] c = "y" -> 121 [] OTHER -> 63

(* json_escape(sv, out): the bytes appended, quotes included. *)
json_escape(sv) ==
    <<"\"">>
    \o Flat([i \in 1..Len(sv) |->
                CASE sv[i] = "\"" -> <<"\\", "\"">>
                  [] sv[i] = "\\" -> <<"\\", "\\">>
                  [] sv[i] = "\n" -> <<"\\", "n">>
                  [] sv[i] = "\r" -> <<"\\", "r">>
                  [] sv[i] = "\t" -> <<"\\", "t">>
                  [] OTHER -> <<sv[i]>>])
    \o <<"\"">>

(* std::string_view operator<: bytes compared as unsigned, a proper prefix *)
(* first.                                                                  *)
RECURSIVE StringLess(_, _)
StringLess(a, b) ==
    IF b = <<>> THEN FALSE
    ELSE IF a = <<>> THEN TRUE
    ELSE IF CharCode(Head(a)) # CharCode(Head(b))
         THEN CharCode(Head(a)) < CharCode(Head(b))
         ELSE StringLess(Tail(a), Tail(b))

(* Mutant: the keys are left in insertion order. *)
SortKeys_none(keys) == keys

(* std::sort(keys.begin(), keys.end()) *)
RECURSIVE SortKeys(_)
SortKeys(keys) ==
    IF keys = <<>> THEN <<>>
    ELSE LET least == CHOOSE i \in 1..Len(keys) :
                         \A j \in 1..Len(keys) : ~StringLess(keys[j], keys[i])
         IN  <<keys[least]>>
             \o SortKeys([j \in 1..(Len(keys) - 1) |->
                             IF j < least THEN keys[j] ELSE keys[j + 1]])

(* The parts joined with commas between brackets. *)
JoinList(parts) ==
    <<"[">>
    \o Flat([i \in 1..Len(parts) |->
                (IF i > 1 THEN <<",">> ELSE <<>>) \o parts[i]])
    \o <<"]">>

(* for (auto field : obj) keys.push_back(field.key): the unescaped keys. *)
DomKeys(elem) == [i \in 1..Len(elem.fields) |-> Unescape(elem.fields[i].key)]

(* The keys fragment of an object: [k1,k2,...] *)
KeysOfObject(elem, sorted) ==
    LET keys == IF sorted THEN SortKeys(DomKeys(elem)) ELSE DomKeys(elem)
    IN  JoinList([i \in 1..Len(keys) |-> json_escape(keys[i])])

(* The keys fragment of an array: [0,1,...,n-1] *)
KeysOfArray(elem) == JoinList([i \in 1..DomSize(elem) |-> to_string(i - 1)])

jx_dom_field_keys(in, chain, sorted) ==
    LET r == navigate_fields(in, chain)
        type == DomType(r.result)
        s == IF type = "OBJECT" THEN KeysOfObject(r.result, sorted)
             ELSE KeysOfArray(r.result)
    IN  IF r.nav = 2 THEN Returned(-1)
        ELSE IF r.nav = 1 THEN Wrote(NULLPTR, -2)
        ELSE IF type \in {"OBJECT", "ARRAY"} THEN Wrote(s, Len(s))
        ELSE Wrote(NULLPTR, -2)

(* A call that wrote *result. *)
WroteResult(flag) == [code |-> 0, written |-> TRUE, out_ptr |-> <<flag>>, out_len |-> 0]

(* Mutant: a value that is no object is reported as lacking the key. *)
jx_dom_field_has_lenient(in, chain, key) ==
    LET r == navigate_fields(in, chain)
    IN  IF r.nav = 2 THEN Returned(-1)
        ELSE IF r.nav = 1 THEN Returned(-2)
        ELSE IF DomType(r.result) # "OBJECT" THEN WroteResult(0)
        ELSE WroteResult(IF DomAtKey(r.result, key).found THEN 1 ELSE 0)

jx_dom_field_has(in, chain, key) ==
    LET r == navigate_fields(in, chain)
    IN  IF r.nav = 2 THEN Returned(-1)
        ELSE IF r.nav = 1 THEN Returned(-2)
        ELSE IF DomType(r.result) # "OBJECT" THEN Returned(-2)
        ELSE WroteResult(IF DomAtKey(r.result, key).found THEN 1 ELSE 0)

(* The shortest decimal text of a double, as the serializer prints it: a   *)
(* fraction is always shown.                                               *)
DoubleText(v) ==
    LET n == Len(v.sig)
        sign == IF v.neg THEN <<"-">> ELSE <<>>
    IN  IF n = 0 THEN sign \o <<"0", ".", "0">>
        ELSE IF v.exp >= 0 THEN sign \o v.sig \o Repeat("0", v.exp) \o <<".", "0">>
        ELSE IF 0 - v.exp < n
             THEN sign \o SubSeq(v.sig, 1, n + v.exp) \o <<".">>
                  \o SubSeq(v.sig, n + v.exp + 1, n)
             ELSE sign \o <<"0", ".">> \o Repeat("0", 0 - v.exp - n) \o v.sig

(* simdjson::to_string(element): the minified text of the parsed value;    *)
(* strings are escaped again and numbers printed from their values.        *)
RECURSIVE DomToString(_)
DomToString(elem) ==
    CASE elem.t = "null" -> <<"n", "u", "l", "l">>
      [] elem.t = "bool" -> TokenText(elem)
      [] elem.t = "num" ->
            IF DomType(elem) = "DOUBLE" THEN DoubleText(DoubleValue(elem.text))
            ELSE (IF IntValue(elem.text).neg THEN <<"-">> ELSE <<>>)
                 \o IntValue(elem.text).mag
      [] elem.t = "str" -> json_escape(Unescape(elem.raw))
      [] elem.t = "arr" ->
            JoinList([i \in 1..Len(elem.kids) |-> DomToString(elem.kids[i])])
      [] elem.t = "obj" ->
            <<"{">>
            \o Flat([i \in 1..Len(elem.fields) |->
                        (IF i > 1 THEN <<",">> ELSE <<>>)
                        \o json_escape(Unescape(elem.fields[i].key)) \o <<":">>
                        \o DomToString(elem.fields[i].val)])
            \o <<"}">>
      [] elem.t = "nest" ->
            Repeat("[", elem.k) \o DomToString(elem.inner) \o Repeat("]", elem.k)

(* dom::array(target): the elements in order. *)
DomElements(target) ==
    IF target.t = "nest"
    THEN <<IF target.k = 1 THEN target.inner ELSE NestNode(target.k - 1, target.inner)>>
    ELSE target.kids

(* The prefix loop of the array-map operators: the target, or the -2 exit. *)
RECURSIVE NavigatePrefix(_, _, _)
NavigatePrefix(target, prefix, i) ==
    IF i > Len(prefix) THEN [ok |-> TRUE, target |-> target]
    ELSE IF DomType(target) # "OBJECT" THEN [ok |-> FALSE, target |-> target]
    ELSE LET r == DomAtKey(target, prefix[i])
         IN  IF ~r.found THEN [ok |-> FALSE, target |-> target]
             ELSE NavigatePrefix(r.value, prefix, i + 1)

(* Mutant: the separator is written before the first element too. *)
ElemSep_always(first, wrap_array) == IF wrap_array THEN <<",">> ELSE <<"\n">>

(* The separator written before every element but the first. *)
ElemSep(first, wrap_array) ==
    IF first THEN <<>> ELSE IF wrap_array THEN <<",">> ELSE <<"\n">>

(* The loop over the elements: frags[i] is [code, text], the fragment of   *)
(* element i or its early exit; out is the std::string built so far.       *)
RECURSIVE MapElements(_, _, _, _)
MapElements(frags, i, out, wrap_array) ==
    IF i > Len(frags) THEN [code |-> 0, out |-> out]
    ELSE LET sep == out \o ElemSep(i = 1, wrap_array)
         IN  IF frags[i].code # 0 THEN [code |-> frags[i].code, out |-> sep]
             ELSE MapElements(frags, i + 1, sep \o frags[i].text, wrap_array)

(* The elements the loop visits: those of the array the prefix reaches. *)
TargetElements(in, prefix) ==
    LET nav == NavigatePrefix(in.doc, prefix, 1)
    IN  IF nav.ok /\ DomType(nav.target) = "ARRAY" THEN DomElements(nav.target)
        ELSE <<>>

(* The frame shared by the array-map operators: parse, prefix, array test, *)
(* loop, closing bracket, copy out; frags[i] is what the loop body makes   *)
(* of element i.                                                           *)
ArrayMap(in, prefix, wrap_array, frags) ==
    LET nav == NavigatePrefix(in.doc, prefix, 1)
        open == IF wrap_array THEN <<"[">> ELSE <<>>
        loop == MapElements(frags, 1, open, wrap_array)
        out == loop.out \o (IF wrap_array THEN <<"]">> ELSE <<>>)
    IN  IF DomParse(in) # SUCCESS THEN Returned(-1)
        ELSE IF ~nav.ok THEN Returned(-2)
        ELSE IF DomType(nav.target) # "ARRAY" THEN Returned(-2)
        ELSE IF loop.code # 0 THEN Returned(loop.code)
        ELSE Wrote(out, Len(out))

Fragment(text) == [code |-> 0, text |-> text]

NoFragment(code) == [code |-> code, text |-> <<>>]

(* Mutant: an element that is no object is emitted as null. *)
MapFieldElement_lenient(elem, fields) ==
    LET cur == NavigateFrom(elem, fields, 1)
    IN  IF DomType(elem) # "OBJECT" THEN Fragment(<<"n", "u", "l", "l">>)
        ELSE IF cur.nav = 0 THEN Fragment(DomToString(cur.result))
        ELSE Fragment(<<"n", "u", "l", "l">>)

(* The body of the element loop of jx_dom_array_map_field. *)
MapFieldElement(elem, fields) ==
    LET cur == NavigateFrom(elem, fields, 1)
    IN  IF DomType(elem) = "NULL_VALUE" THEN Fragment(<<"n", "u", "l", "l">>)
        ELSE IF DomType(elem) # "OBJECT" THEN NoFragment(-2)
        ELSE IF cur.nav = 0 THEN Fragment(DomToString(cur.result))
        ELSE Fragment(<<"n", "u", "l", "l">>)

(* Mutant: the string built so far is copied out before the -2 exit. *)
jx_dom_array_map_field_partial(in, prefix, fields, wrap_array) ==
    LET elems == TargetElements(in, prefix)
        frags == [i \in 1..Len(elems) |-> MapFieldElement(elems[i], fields)]
        r == ArrayMap(in, prefix, wrap_array, frags)
        loop == MapElements(frags, 1, <<>>, wrap_array)
    IN  IF r.code = -2 /\ DomParse(in) = SUCCESS
           /\ NavigatePrefix(in.doc, prefix, 1).ok
           /\ DomType(NavigatePrefix(in.doc, prefix, 1).target) = "ARRAY"
        THEN [code |-> -2, written |-> TRUE, out_ptr |-> loop.out,
              out_len |-> Len(loop.out)]
        ELSE r

jx_dom_array_map_field(in, prefix, fields, wrap_array) ==
    LET elems == TargetElements(in, prefix)
    IN  ArrayMap(in, prefix, wrap_array,
                 [i \in 1..Len(elems) |-> MapFieldElement(elems[i], fields)])

(* Mutant: the key written is the field name, escaped here. *)
MapFieldsObjMembers_reencoded(elem, keys, fields) ==
    Flat([i \in 1..Len(fields) |->
            (IF i > 1 THEN <<",">> ELSE <<>>) \o json_escape(fields[i]) \o <<":">>
            \o (IF DomType(elem) = "NULL_VALUE" THEN <<"n", "u", "l", "l">>
                ELSE IF DomAtKey(elem, fields[i]).found
                     THEN DomToString(DomAtKey(elem, fields[i]).value)
                     ELSE <<"n", "u", "l", "l">>)])

(* The members of one emitted object: key bytes, colon, value. *)
MapFieldsObjMembers(elem, keys, fields) ==
    Flat([i \in 1..Len(fields) |->
            (IF i > 1 THEN <<",">> ELSE <<>>) \o keys[i] \o <<":">>
            \o (IF DomType(elem) = "NULL_VALUE" THEN <<"n", "u", "l", "l">>
                ELSE IF DomAtKey(elem, fields[i]).found
                     THEN DomToString(DomAtKey(elem, fields[i]).value)
                     ELSE <<"n", "u", "l", "l">>)])

(* The body of the element loop of jx_dom_array_map_fields_obj. *)
MapFieldsObjElement(elem, keys, fields) ==
    IF DomType(elem) # "NULL_VALUE" /\ DomType(elem) # "OBJECT" THEN NoFragment(-2)
    ELSE Fragment(<<"{">> \o MapFieldsObjMembers(elem, keys, fields) \o <<"}">>)

jx_dom_array_map_fields_obj(in, prefix, keys, fields, wrap_array) ==
    LET elems == TargetElements(in, prefix)
    IN  ArrayMap(in, prefix, wrap_array,
                 [i \in 1..Len(elems) |-> MapFieldsObjElement(elems[i], keys, fields)])

(* Mutant: only INT64 is a number. *)
type_string_int_only(t) ==
    CASE t = "OBJECT" -> <<"\"", "o", "b", "j", "e", "c", "t", "\"">>
      [] t = "ARRAY" -> <<"\"", "a", "r", "r", "a", "y", "\"">>
      [] t = "STRING" -> <<"\"", "s", "t", "r", "i", "n", "g", "\"">>
      [] t = "INT64" -> <<"\"", "n", "u", "m", "b", "e", "r", "\"">>
      [] t = "BOOL" -> <<"\"", "b", "o", "o", "l", "e", "a", "n", "\"">>
      [] OTHER -> <<"\"", "n", "u", "l", "l", "\"">>

(* type_string(t) *)
type_string(t) ==
    CASE t = "OBJECT" -> <<"\"", "o", "b", "j", "e", "c", "t", "\"">>
      [] t = "ARRAY" -> <<"\"", "a", "r", "r", "a", "y", "\"">>
      [] t = "STRING" -> <<"\"", "s", "t", "r", "i", "n", "g", "\"">>
      [] t \in {"INT64", "UINT64", "DOUBLE"} -> <<"\"", "n", "u", "m", "b", "e", "r", "\"">>
      [] t = "BOOL" -> <<"\"", "b", "o", "o", "l", "e", "a", "n", "\"">>
      [] OTHER -> <<"\"", "n", "u", "l", "l", "\"">>

(* case 0: length *)
BuiltinLength(elem) ==
    CASE DomType(elem) \in {"OBJECT", "ARRAY"} -> Fragment(to_string(DomSize(elem)))
      [] DomType(elem) = "STRING" -> Fragment(to_string(Len(Unescape(elem.raw))))
      [] DomType(elem) = "NULL_VALUE" -> Fragment(<<"n", "u", "l", "l">>)
      [] OTHER -> NoFragment(-2)

(* case 1: keys *)
BuiltinKeys(elem, sorted) ==
    CASE DomType(elem) = "OBJECT" -> Fragment(KeysOfObject(elem, sorted))
      [] DomType(elem) = "ARRAY" -> Fragment(KeysOfArray(elem))
      [] OTHER -> NoFragment(-2)

(* case 3: has *)
BuiltinHas(elem, arg) ==
    IF DomType(elem) # "OBJECT" THEN NoFragment(-2)
    ELSE Fragment(IF DomAtKey(elem, arg).found THEN <<"t", "r", "u", "e">>
                  ELSE <<"f", "a", "l", "s", "e">>)

(* switch (op): 0 = length, 1 = keys, 2 = type, 3 = has, else -1 *)
BuiltinElement(elem, op, sorted, arg) ==
    CASE op = 0 -> BuiltinLength(elem)
      [] op = 1 -> BuiltinKeys(elem, sorted)
      [] op = 2 -> Fragment(type_string(DomType(elem)))
      [] op = 3 -> BuiltinHas(elem, arg)
      [] OTHER -> NoFragment(-1)

jx_dom_array_map_builtin(in, prefix, op, sorted, arg, wrap_array) ==
    LET elems == TargetElements(in, prefix)
    IN  ArrayMap(in, prefix, wrap_array,
                 [i \in 1..Len(elems) |-> BuiltinElement(elems[i], op, sorted, arg)])

(***************************************************************************)
(* The reusable handle (struct JxDomParser): a tape parser and an          *)
(* on-demand parser that live across calls.  The tape parser holds the     *)
(* tape of the last document it parsed, or nothing usable after a parse    *)
(* that failed; the on-demand parser holds the index of the last buffer it *)
(* scanned.  reused records that the parser had served an earlier call.    *)
(***************************************************************************)
(* jx_dom_parser_new() *)
NewDomParser ==
    [dom |-> [state |-> "empty", doc |-> NullNode, reused |-> FALSE],
     ondemand |-> [state |-> "empty", in |-> [doc |-> NullNode, style |-> "compact"],
                   reused |-> FALSE]]

(* A parse that, failing on a parser that holds a tape, reports success    *)
(* and leaves the tape of the earlier document in place.                   *)
dom_parse_stale(dom, in) ==
    IF DomParse(in) # SUCCESS /\ dom.state = "valid"
    THEN [err |-> SUCCESS, dom |-> [dom EXCEPT !.reused = TRUE]]
    ELSE [err |-> DomParse(in),
          dom |-> [state |-> IF DomParse(in) = SUCCESS THEN "valid" ELSE "broken",
                   doc |-> IF DomParse(in) = SUCCESS THEN in.doc ELSE NullNode,
                   reused |-> dom.state # "empty"]]

(* p->dom.parse(buf, len): the code, and the parser with the new tape. *)
dom_parse(dom, in) ==
    [err |-> DomParse(in),
     dom |-> [state |-> IF DomParse(in) = SUCCESS THEN "valid" ELSE "broken",
              doc |-> IF DomParse(in) = SUCCESS THEN in.doc ELSE NullNode,
              reused |-> dom.state # "empty"]]

(* Mutant: the error of the parse is not looked at when the parser still   *)
(* holds a tape; the chain is resolved on the tape of the earlier call.    *)
navigate_fields_reuse_stale(dom, in, chain) ==
    LET parsed == dom_parse_stale(dom, in)
        r == NavigateFrom(parsed.dom.doc, chain, 1)
    IN  IF parsed.err # SUCCESS
        THEN [nav |-> 2, result |-> NullNode, dom |-> parsed.dom]
        ELSE [nav |-> r.nav, result |-> r.result, dom |-> parsed.dom]

(* navigate_fields on the handle's tape parser: the element found lives on *)
(* the parser's tape.                                                      *)
navigate_fields_reuse(dom, in, chain) ==
    LET parsed == dom_parse(dom, in)
        r == NavigateFrom(parsed.dom.doc, chain, 1)
    IN  IF parsed.err # SUCCESS
        THEN [nav |-> 2, result |-> NullNode, dom |-> parsed.dom]
        ELSE [nav |-> r.nav, result |-> r.result, dom |-> parsed.dom]

(* navigate_fields_raw on the handle's on-demand parser: iterate scans the *)
(* buffer into the parser, the document reads through that index.          *)
navigate_fields_raw_reuse(ondemand, in, chain, stray) ==
    LET scanned == [state |-> "indexed", in |-> in, reused |-> ondemand.state # "empty"]
        r == navigate_fields_raw(scanned.in, chain, stray)
    IN  [nav |-> r.nav, raw |-> r.raw, ondemand |-> scanned]

(* A reuse call gives back what it returned and the handle as it left it. *)
Reused(ret, p) == [ret |-> ret, p |-> p]

jx_dom_find_field_raw_reuse(p, in, chain, stray) ==
    LET r == navigate_fields_raw_reuse(p.ondemand, in, chain, stray)
        raw == trim_raw_json(r.raw)
        q == [p EXCEPT !.ondemand = r.ondemand]
    IN  IF r.nav = 2 THEN Reused(Returned(-1), q)
        ELSE IF r.nav = 1 THEN Reused(Wrote(<<"n", "u", "l", "l">>, 4), q)
        ELSE Reused(Wrote(raw, Len(raw)), q)

(* The packed results [u32 len1][bytes1][u32 len2][bytes2]... as one entry *)
(* per chain; every chain scans the buffer anew.                           *)
RECURSIVE PackChains(_, _, _, _, _, _)
PackChains(ondemand, in, chains, stray, i, packed) ==
    IF i > Len(chains) THEN [packed |-> packed, ondemand |-> ondemand]
    ELSE LET r == navigate_fields_raw_reuse(ondemand, in, chains[i], stray)
             val == IF r.nav = 0 THEN trim_raw_json(r.raw) ELSE <<"n", "u", "l", "l">>
         IN  PackChains(r.ondemand, in, chains, stray, i + 1,
                        Append(packed, [slen |-> Len(val), bytes |-> val]))

PackedLen(packed) ==
    IF packed = <<>> THEN 0
    ELSE LET sizes == [i \in 1..Len(packed) |-> 4 + packed[i].slen]
             Sum[i \in 0..Len(sizes)] == IF i = 0 THEN 0 ELSE Sum[i - 1] + sizes[i]
         IN  Sum[Len(sizes)]

jx_dom_find_fields_raw_reuse(p, in, chains, stray) ==
    LET r == PackChains(p.ondemand, in, chains, stray, 1, <<>>)
    IN  Reused(Wrote(r.packed, PackedLen(r.packed)), [p EXCEPT !.ondemand = r.ondemand])

jx_dom_field_length_reuse(p, in, chain) ==
    LET r == navigate_fields_reuse(p.dom, in, chain)
        q == [p EXCEPT !.dom = r.dom]
        s == to_string(DomSize(r.result))
    IN  IF r.nav = 2 THEN Reused(Returned(-1), q)
        ELSE IF r.nav = 1 THEN Reused(Returned(-2), q)
        ELSE IF DomType(r.result) \in {"OBJECT", "ARRAY"} THEN Reused(Wrote(s, Len(s)), q)
        ELSE Reused(Returned(-2), q)

jx_dom_field_keys_reuse(p, in, chain, sorted) ==
    LET r == navigate_fields_reuse(p.dom, in, chain)
        q == [p EXCEPT !.dom = r.dom]
        type == DomType(r.result)
        s == IF type = "OBJECT" THEN KeysOfObject(r.result, sorted)
             ELSE KeysOfArray(r.result)
    IN  IF r.nav = 2 THEN Reused(Returned(-1), q)
        ELSE IF r.nav = 1 THEN Reused(Returned(-2), q)
        ELSE IF type \in {"OBJECT", "ARRAY"} THEN Reused(Wrote(s, Len(s)), q)
        ELSE Reused(Returned(-2), q)

jx_dom_field_has_reuse(p, in, chain, key) ==
    LET r == navigate_fields_reuse(p.dom, in, chain)
        q == [p EXCEPT !.dom = r.dom]
    IN  IF r.nav = 2 THEN Reused(Returned(-1), q)
        ELSE IF r.nav = 1 THEN Reused(Returned(-2), q)
        ELSE IF DomType(r.result) # "OBJECT" THEN Reused(Returned(-2), q)
        ELSE Reused(WroteResult(IF DomAtKey(r.result, key).found THEN 1 ELSE 0), q)

(***************************************************************************)
(* Newline-delimited streams.  A stream is the sequence of its documents,  *)
(* one per line; batch_size is taken to be at least the longest document.  *)
(***************************************************************************)
(* The error the on-demand stream reports for a document: that of its     *)
(* first malformed token; integers of any size are accepted.               *)
RECURSIVE StreamDocError(_)
StreamDocError(node) ==
    CASE node.t = "bad" -> node.err
      [] node.t = "arr" ->
            FirstError([i \in 1..Len(node.kids) |-> StreamDocError(node.kids[i])])
      [] node.t = "obj" ->
            FirstError([i \in 1..Len(node.fields) |->
                           StreamDocError(node.fields[i].val)])
      [] node.t = "nest" -> StreamDocError(node.inner)
      [] OTHER -> SUCCESS

(* parser.iterate_many(sv, batch_size): one result per document of the     *)
(* stream, an error for a malformed document, iteration going on after it. *)
iterate_many(docs) ==
    [error |-> SUCCESS,
     results |-> [i \in 1..Len(docs) |->
                     [error |-> StreamDocError(docs[i]), doc |-> docs[i]]]]

(* dom_parser.parse_many(buf, len, batch_size): one result per document,   *)
(* the error of the tape parse or the parsed element.                      *)
parse_many(docs) ==
    [i \in 1..Len(docs) |->
        [error |-> DomParse([doc |-> docs[i], style |-> "compact"]),
         doc |-> docs[i]]]

(* Mutant: the first document in error ends the loop. *)
RECURSIVE CountLoop_abort(_, _, _)
CountLoop_abort(results, i, count) ==
    IF i > Len(results) THEN count
    ELSE IF results[i].error # SUCCESS THEN count
    ELSE CountLoop_abort(results, i + 1, count + 1)

(* for (auto doc_result : stream) { if (doc_result.error()) continue; count++; } *)
RECURSIVE CountLoop(_, _, _)
CountLoop(results, i, count) ==
    IF i > Len(results) THEN count
    ELSE IF results[i].error # SUCCESS THEN CountLoop(results, i + 1, count)
    ELSE CountLoop(results, i + 1, count + 1)

jx_iterate_many_count(docs) ==
    LET stream == iterate_many(docs)
    IN  IF stream.error # SUCCESS THEN Returned(stream.error)
        ELSE WroteResult(CountLoop(stream.results, 1, 0))

(* The loop over the tape parser's stream: a document in error, a document *)
(* that is no object and a field that is missing or no string add nothing. *)
RECURSIVE ExtractLoop(_, _, _, _)
ExtractLoop(results, field, i, total) ==
    IF i > Len(results) THEN total
    ELSE LET doc == results[i].doc IN
         IF results[i].error # SUCCESS THEN ExtractLoop(results, field, i + 1, total)
         ELSE IF DomType(doc) # "OBJECT" THEN ExtractLoop(results, field, i + 1, total)
         ELSE LET at == DomAtKey(doc, field) IN
              IF at.found /\ DomType(at.value) = "STRING"
              THEN ExtractLoop(results, field, i + 1, total + Len(Unescape(at.value.raw)))
              ELSE ExtractLoop(results, field, i + 1, total)

jx_iterate_many_extract_field(docs, field) ==
    LET stream == iterate_many(docs)
    IN  IF stream.error # SUCCESS THEN Returned(stream.error)
        ELSE WroteResult(ExtractLoop(parse_many(docs), field, 1, 0))

(***************************************************************************)
(* The parser handle (struct JxParser): an on-demand parser holding the    *)
(* structural index of the buffer it scanned last, and the most recent     *)
(* document, a cursor over that index and over the caller's buffer.  The   *)
(* caller's buffer is its bytes `in` and the identity `id` of the memory.  *)
(***************************************************************************)
(* jx_parser_new(): a parser that scanned nothing, a default document. *)
NewParser ==
    [parser |-> [index |-> 0],
     document |-> [state |-> "none", buf |-> 0,
                   in |-> [doc |-> NullNode, style |-> "compact"], pos |-> 0]]

(* Mutant: a failed parse resets the document of the handle. *)
jx_parse_ondemand_reset(p, buf) ==
    LET err == OndemandIterate(buf.in)
    IN  [ret |-> Returned(err),
         p |-> [parser |-> [index |-> buf.id],
                document |-> IF err = SUCCESS
                             THEN [state |-> "live", buf |-> buf.id,
                                   in |-> buf.in, pos |-> 0]
                             ELSE NewParser.document]]

(* p->parser.iterate(sv).get(p->document): sv is a view of the caller's    *)
(* memory, nothing is copied.  The scan replaces the parser's index; the   *)
(* document is assigned only when iterate succeeded.                       *)
jx_parse_ondemand(p, buf) ==
    LET err == OndemandIterate(buf.in)
    IN  [ret |-> Returned(err),
         p |-> [parser |-> [index |-> buf.id],
                document |-> IF err = SUCCESS
                             THEN [state |-> "live", buf |-> buf.id,
                                   in |-> buf.in, pos |-> 0]
                             ELSE p.document]]

(* The document of the handle can be read as the library intends: it was   *)
(* assigned, the parser's index is still that of its buffer and the        *)
(* caller's memory still is that buffer.                                   *)
DocumentSound(p, mem) ==
    /\ p.document.state = "live"
    /\ p.parser.index = p.document.buf
    /\ mem.id = p.document.buf

(* What a lookup yields: the return, the cursor afterwards, whether the    *)
(* call faulted and which caller buffer it read (0: none).                 *)
Looked(ret, pos, crashed, reads) ==
    [ret |-> ret, pos |-> pos, crashed |-> crashed, reads |-> reads]

(* The typed getters on the value the cursor reached. *)
GetValue(val, kind) ==
    CASE val.t = "bad" -> Returned(val.err)
      [] kind = "str" ->
            IF val.t = "str" THEN Wrote(Unescape(val.raw), Len(Unescape(val.raw)))
            ELSE Returned(INCORRECT_TYPE)
      [] kind = "int64" ->
            IF val.t # "num" THEN Returned(INCORRECT_TYPE)
            ELSE IF NumberType(val.text) = "signed_integer"
                 THEN WroteResult(IntValue(val.text))
                 ELSE IF NumberType(val.text) = "floating_point_number"
                      THEN Returned(INCORRECT_TYPE) ELSE Returned(NUMBER_ERROR)
      [] kind = "double" ->
            IF val.t = "num" THEN WroteResult(DoubleValue(val.text))
            ELSE Returned(INCORRECT_TYPE)

(* document.find_field(k) followed by a getter, reading the buffer the     *)
(* document views: the search goes forward from the cursor and compares    *)
(* the key bytes as written.                                               *)
DocFindField(document, kind, key) ==
    LET root == document.in.doc
        fs == root.fields
        hits == {i \in 1..Len(fs) : i > document.pos /\ fs[i].key = key}
        j == CHOOSE i \in hits : \A h \in hits : i <= h
    IN  IF root.t = "bad" THEN Looked(Returned(root.err), 0, FALSE, document.buf)
        ELSE IF root.t # "obj" THEN Looked(Returned(INCORRECT_TYPE), 0, FALSE, document.buf)
        ELSE IF hits = {} THEN Looked(Returned(NO_SUCH_FIELD), Len(fs), FALSE, document.buf)
        ELSE Looked(GetValue(fs[j].val, kind), j, FALSE, document.buf)

(* document.type(): the type read off the first byte of the buffer. *)
DocType(document) ==
    LET t == OdType(OdValue(document.in.doc, document.in.style))
    IN  IF t.err # SUCCESS THEN Looked(Returned(t.err), document.pos, FALSE, document.buf)
        ELSE Looked(WroteResult(t.type), document.pos, FALSE, document.buf)

DocRead(document, kind, key) ==
    IF kind = "type" THEN DocType(document) ELSE DocFindField(document, kind, key)

(* The outcomes of a lookup on p->document.  A default document has no     *)
(* parser behind it; a document whose index was replaced by a later scan   *)
(* or whose buffer the caller has refilled is read all the same: the       *)
(* behaviour is undefined, the call may fault, fail, or answer as if the   *)
(* document were intact.                                                   *)
DocOutcomes(p, mem, kind, key) ==
    IF p.document.state = "none"
    THEN {Looked(Returned(TAPE_ERROR), 0, FALSE, 0), Looked(Returned(-1), 0, TRUE, 0)}
    ELSE IF DocumentSound(p, mem) THEN {DocRead(p.document, kind, key)}
    ELSE {DocRead(p.document, kind, key),
          Looked(Returned(TAPE_ERROR), p.document.pos, FALSE, p.document.buf),
          Looked(Returned(-1), p.document.pos, TRUE, p.document.buf)}

(***************************************************************************)
(* The inputs explored: scalar documents over every literal below, arrays  *)
(* and objects of up to MaxKids leaves, containers of containers, and the  *)
(* deep documents around the depth limit.                                  *)
(***************************************************************************)
NumberLiterals ==
    { <<"0">>,
      <<"-", "7">>,
      <<"7", "5", ".", "8", "0">>,
      <<"-", "1", ".", "5", "E", "+", "3">>,
      <<"9", "2", "2", "3", "3", "7", "2", "0", "3", "6", "8", "5", "4", "7", "7", "5", "8", "0", "7">>,
      <<"9", "2", "2", "3", "3", "7", "2", "0", "3", "6", "8", "5", "4", "7", "7", "5", "8", "0", "8">>,
      <<"1", "8", "4", "4", "6", "7", "4", "4", "0", "7", "3", "7", "0", "9", "5", "5", "1", "6", "1", "5">>,
      <<"1", "8", "4", "4", "6", "7", "4", "4", "0", "7", "3", "7", "0", "9", "5", "5", "1", "6", "1", "6">>,
      <<"-", "9", "2", "2", "3", "3", "7", "2", "0", "3", "6", "8", "5", "4", "7", "7", "5", "8", "0", "8">>,
      <<"-", "9", "2", "2", "3", "3", "7", "2", "0", "3", "6", "8", "5", "4", "7", "7", "5", "8", "0", "9">> }

(* String bodies: plain, empty, an escaped quote, a trailing escaped       *)
(* backslash, and structural characters inside the string.                 *)
StringBodies ==
    { <<"a">>, <<>>, <<"x", "\\", "\"", "y">>, <<"b", "\\", "\\">>,
      <<"]", ",", " ", "1">> }

BadTokens ==
    { BadNode(<<"z">>, TAPE_ERROR), BadNode(<<"1", ".">>, NUMBER_ERROR),
      BadNode(<<"\"", "a">>, UNCLOSED_STRING) }

Scalars ==
    {NullNode, BoolNode(TRUE), BoolNode(FALSE)}
    \cup {NumNode(t) : t \in NumberLiterals}
    \cup {StrNode(b) : b \in StringBodies}
    \cup BadTokens

(* The leaves put inside containers. *)
Leaves ==
    { NullNode, BoolNode(FALSE), NumNode(<<"-", "7">>),
      NumNode(<<"7", "5", ".", "8", "0">>),
      NumNode(<<"1","8","4","4","6","7","4","4","0","7","3","7","0","9","5","5","1","6","1","6">>),
      StrNode(<<"x", "\\", "\"", "y">>),
      BadNode(<<"z">>, TAPE_ERROR) }

Keys == { <<"a">>, <<"k", "\\", "n">> }

SeqsUpTo(S, n) == UNION {[1..m -> S] : m \in 0..n}

Arrays(S) == {ArrNode(kids) : kids \in SeqsUpTo(S, MaxKids)}

Objects(K, S) ==
    {ObjNode(fields) : fields \in SeqsUpTo({Field(k, v) : k \in K, v \in S}, MaxKids)}

(* The values put inside the containers of containers. *)
Inner ==
    { ArrNode(<<>>), ObjNode(<<>>),
      ArrNode(<<NumNode(<<"9","2","2","3","3","7","2","0","3","6","8","5","4","7","7","5","8","0","8">>),
                BoolNode(TRUE)>>),
      ObjNode(<<Field(<<"a">>, NumNode(<<"1", "e", "5">>))>>),
      StrNode(<<"a">>),
      BadNode(<<"1", ".">>, NUMBER_ERROR) }

ShallowNests == {NestNode(2, v) : v \in {NumNode(<<"0">>), ArrNode(<<>>)}}

(* Documents nested around the depth limit. *)
DeepNests ==
    {NestNode(k, v) : k \in MAX_DEPTH..(MAX_DEPTH + DeepOver),
                      v \in {NumNode(<<"0">>), ArrNode(<<>>)}}

(* Documents with several malformed tokens, or one behind a big integer. *)
Malformed ==
    { ArrNode(<<BadNode(<<"z">>, TAPE_ERROR), BadNode(<<"1", ".">>, NUMBER_ERROR)>>),
      ArrNode(<<BadNode(<<"1", ".">>, NUMBER_ERROR), BadNode(<<"z">>, TAPE_ERROR)>>),
      ArrNode(<<BadNode(<<"z">>, TAPE_ERROR), BadNode(<<"\"", "a">>, UNCLOSED_STRING)>>),
      ObjNode(<<Field(<<"a">>, NumNode(<<"-","9","2","2","3","3","7","2","0","3","6","8","5","4","7","7","5","8","0","9">>)),
                Field(<<"b">>, BadNode(<<"z">>, TAPE_ERROR))>>) }

(* Objects whose keys differ in case, length and escapes, out of order. *)
KeyedDocs ==
    { ObjNode(<<Field(<<"b">>, NullNode), Field(<<"a", "b">>, BoolNode(TRUE)),
                Field(<<"Z">>, NumNode(<<"0">>)), Field(<<"a">>, StrNode(<<"a">>))>>),
      ObjNode(<<Field(<<"k", "\\", "n">>, NumNode(<<"0">>)),
                Field(<<"a">>, ObjNode(<<Field(<<"b">>, NullNode),
                                         Field(<<"a">>, BoolNode(FALSE))>>)),
                Field(<<"a">>, NullNode)>>) }

(* Arrays for the array-map operators: null, object and other elements in  *)
(* every position, nested values, and an array behind a prefix key.        *)
MapDocs ==
    LET one == ObjNode(<<Field(<<"a">>, NumNode(<<"7", "5", ".", "8", "0">>)),
                         Field(<<"b">>, StrNode(<<"x", "\\", "\"", "y">>))>>)
        two == ObjNode(<<Field(<<"b">>, ArrNode(<<NullNode, NumNode(<<"-", "7">>)>>)),
                         Field(<<"a">>, ObjNode(<<Field(<<"a">>, NullNode)>>))>>)
    IN  { ArrNode(<<NullNode, one, two>>),
          ArrNode(<<one, NumNode(<<"0">>), two>>),
          ArrNode(<<one, two, StrNode(<<"b", "\\", "\\">>)>>),
          ArrNode(<<StrNode(<<"x", "\\", "\"", "y">>), ArrNode(<<NullNode>>), one>>),
          ArrNode(<<NullNode, BoolNode(TRUE)>>),
          ObjNode(<<Field(<<"a">>, ArrNode(<<two, NullNode, one>>))>>),
          ObjNode(<<Field(<<"a">>, ArrNode(<<one, ArrNode(<<>>)>>))>>) }

(* Arrays holding every JSON type: the six types in one array, and the    *)
(* three kinds of number next to a boolean.                                *)
TypeDocs ==
    { ArrNode(<<NumNode(<<"1">>), StrNode(<<"s">>), NullNode, ObjNode(<<>>),
                ArrNode(<<>>)>>),
      ArrNode(<<NumNode(<<"7", "5", ".", "8", "0">>),
                NumNode(<<"1","8","4","4","6","7","4","4","0","7","3","7","0","9","5","5","1","6","1","5">>),
                NumNode(<<"-", "7">>), BoolNode(TRUE)>>) }

Documents ==
    Scalars \cup Arrays(Leaves) \cup Objects(Keys, Leaves)
    \cup Arrays(Inner) \cup Objects({<<"a">>}, Inner) \cup ShallowNests
    \cup Malformed \cup KeyedDocs \cup MapDocs \cup TypeDocs

(* The field chains given to the fast-path operators: empty, a key that is *)
(* present, a key as the buffer spells it and as it reads unescaped, a     *)
(* missing key, and a two-step chain.                                      *)
Chains ==
    { <<>>, << <<"a">> >>, << <<"k", "\\", "n">> >>, << <<"k", "\n">> >>,
      << <<"b">> >>, << <<"a">>, <<"a">> >> }

(* The chains of the tape-based operators and the prefixes of array-map. *)
ShortChains == { <<>>, << <<"a">> >>, << <<"b">> >>, << <<"a">>, <<"a">> >> }

Prefixes == { <<>>, << <<"a">> >> }

(* The keys asked of field-has and of has(arg). *)
HasKeys == { <<"a">>, <<"k", "\n">> }

(* The (keys, fields) pairs of array-map-fields-obj: the keys are the      *)
(* caller's encoded bytes, which need not spell the field names.           *)
KeyFieldPairs ==
    { [keys |-> <<>>, fields |-> <<>>],
      [keys |-> << <<"\"", "a", "\"">> >>, fields |-> << <<"a">> >>],
      [keys |-> << <<"\"", "q", "\"">>, <<"\"", "b", "\"">> >>,
       fields |-> << <<"a">>, <<"b">> >>] }

(* op, sorted and arg of array-map-builtin; 4 is no operation. *)
BuiltinArgs ==
    {[op |-> o, sorted |-> FALSE, arg |-> <<>>] : o \in {0, 2, 4}}
    \cup {[op |-> 1, sorted |-> b, arg |-> <<>>] : b \in BOOLEAN}
    \cup {[op |-> 3, sorted |-> FALSE, arg |-> k] : k \in HasKeys}

(* The bytes an out-of-bounds read of fields[0] may yield. *)
StrayKeys == { <<>>, <<"a">>, <<"q">> }

Inputs ==
    {[doc |-> d, style |-> s] : d \in Documents, s \in {"compact", "spaced"}}
    \cup {[doc |-> d, style |-> "compact"] : d \in DeepNests}

(***************************************************************************)
(* The state: the caller's buffer and the last call made on it with what   *)
(* it returned.  Every call starts with the caller's *out_ptr and *out_len *)
(* unwritten; the caller releases a call's result before the next call.    *)
(***************************************************************************)
NoCall ==
    [op |-> "none", chain |-> <<>>, args |-> <<>>, crashed |-> FALSE,
     ret |-> Returned(0),
     path |-> "none", cursor |-> 0, sync |-> TRUE, reads |-> 0]

Init ==
    /\ input \in Inputs
    /\ call = NoCall
    /\ handle = NewDomParser

CallToFlat ==
    /\ call = NoCall
    /\ call' = [NoCall EXCEPT !.op = "jx_dom_to_flat", !.ret = jx_dom_to_flat(input),
                              !.path = "ondemand"]
    /\ UNCHANGED <<input, handle>>

CallToFlatViaTape ==
    /\ call = NoCall
    /\ LET r == jx_dom_to_flat_via_tape(input)
       IN  call' = [NoCall EXCEPT !.op = "jx_dom_to_flat_via_tape", !.ret = r.ret,
                                  !.path = r.path, !.cursor = r.cursor,
                                  !.sync = r.sync]
    /\ UNCHANGED <<input, handle>>

(* With field_count = 0 the read of fields[0] either faults, ending the    *)
(* process, or yields whatever bytes lie there.                            *)
CallFindFieldRaw ==
    /\ call = NoCall
    /\ \E chain \in Chains :
          \/ /\ chain = <<>>
             /\ call' = [NoCall EXCEPT !.op = "jx_dom_find_field_raw",
                                       !.chain = chain, !.crashed = TRUE]
          \/ \E stray \in StrayKeys :
                /\ chain = <<>> \/ stray = <<>>
                /\ call' = [NoCall EXCEPT
                               !.op = "jx_dom_find_field_raw", !.chain = chain,
                               !.ret = jx_dom_find_field_raw(input, chain, stray),
                               !.path = "ondemand"]
    /\ UNCHANGED <<input, handle>>

CallFieldLength ==
    /\ call = NoCall
    /\ \E chain \in Chains :
          call' = [NoCall EXCEPT !.op = "jx_dom_field_length", !.chain = chain,
                                 !.ret = jx_dom_field_length(input, chain),
                                 !.path = "tape"]
    /\ UNCHANGED <<input, handle>>

CallFieldKeys ==
    /\ call = NoCall
    /\ \E chain \in ShortChains, sorted \in BOOLEAN :
          call' = [NoCall EXCEPT !.op = "jx_dom_field_keys", !.chain = chain,
                                 !.args = [sorted |-> sorted],
                                 !.ret = jx_dom_field_keys(input, chain, sorted),
                                 !.path = "tape"]
    /\ UNCHANGED <<input, handle>>

CallFieldHas ==
    /\ call = NoCall
    /\ \E chain \in ShortChains, key \in HasKeys :
          call' = [NoCall EXCEPT !.op = "jx_dom_field_has", !.chain = chain,
                                 !.args = [key |-> key],
                                 !.ret = jx_dom_field_has(input, chain, key),
                                 !.path = "tape"]
    /\ UNCHANGED <<input, handle>>

CallArrayMapField ==
    /\ call = NoCall
    /\ \E prefix \in Prefixes, fields \in ShortChains, wrap_array \in BOOLEAN :
          call' = [NoCall EXCEPT
                      !.op = "jx_dom_array_map_field", !.chain = prefix,
                      !.args = [fields |-> fields, wrap_array |-> wrap_array],
                      !.ret = jx_dom_array_map_field(input, prefix, fields, wrap_array),
                      !.path = "tape"]
    /\ UNCHANGED <<input, handle>>

CallArrayMapFieldsObj ==
    /\ call = NoCall
    /\ \E prefix \in Prefixes, kf \in KeyFieldPairs, wrap_array \in BOOLEAN :
          call' = [NoCall EXCEPT
                      !.op = "jx_dom_array_map_fields_obj", !.chain = prefix,
                      !.args = [keys |-> kf.keys, fields |-> kf.fields,
                                wrap_array |-> wrap_array],
                      !.ret = jx_dom_array_map_fields_obj(input, prefix, kf.keys,
                                                          kf.fields, wrap_array),
                      !.path = "tape"]
    /\ UNCHANGED <<input, handle>>

CallArrayMapBuiltin ==
    /\ call = NoCall
    /\ \E prefix \in Prefixes, b \in BuiltinArgs, wrap_array \in BOOLEAN :
          call' = [NoCall EXCEPT
                      !.op = "jx_dom_array_map_builtin", !.chain = prefix,
                      !.args = [op |-> b.op, sorted |-> b.sorted, arg |-> b.arg,
                                wrap_array |-> wrap_array],
                      !.ret = jx_dom_array_map_builtin(input, prefix, b.op, b.sorted,
                                                       b.arg, wrap_array),
                      !.path = "tape"]
    /\ UNCHANGED <<input, handle>>

(* jx_flat_buffer_free, jx_minify_free: the caller is done with the call's  *)
(* result and its slots are fresh for the next call.                       *)
Release ==
    /\ call # NoCall
    /\ call' = NoCall
    /\ UNCHANGED <<input, handle>>

Next ==
    CallToFlat \/ CallToFlatViaTape \/ CallFindFieldRaw \/ CallFieldLength
    \/ CallFieldKeys \/ CallFieldHas \/ CallArrayMapField
    \/ CallArrayMapFieldsObj \/ CallArrayMapBuiltin \/ Release

Spec == Init /\ [][Next]_vars

(***************************************************************************)
(* The reuse operators on one JxDomParser handle: the caller makes call    *)
(* after call on the same handle, each on the buffer it then holds.        *)
(***************************************************************************)
(* The buffers given to the reuse operators: objects with plain, escaped   *)
(* and repeated keys, an array, a string, null, a number beyond 64 bits,   *)
(* a malformed token and an unclosed string.                               *)
ReuseInputs ==
    LET keyed == ObjNode(<<Field(<<"k", "\\", "n">>, NumNode(<<"0">>)),
                           Field(<<"a">>, ObjNode(<<Field(<<"b">>, NullNode),
                                                    Field(<<"a">>, BoolNode(FALSE))>>)),
                           Field(<<"a">>, NullNode)>>)
        one == ObjNode(<<Field(<<"b">>, NumNode(<<"7", "5", ".", "8", "0">>)),
                         Field(<<"a">>, StrNode(<<"x", "\\", "\"", "y">>))>>)
        docs == { keyed, one, ArrNode(<<NullNode, NumNode(<<"-", "7">>)>>),
                  StrNode(<<"x", "\\", "\"", "y">>), NullNode,
                  ObjNode(<<Field(<<"a">>, NumNode(<<"1","8","4","4","6","7","4","4","0","7","3","7","0","9","5","5","1","6","1","6">>))>>),
                  ObjNode(<<Field(<<"a">>, ArrNode(<<>>)),
                            Field(<<"b">>, BadNode(<<"z">>, TAPE_ERROR))>>),
                  BadNode(<<"\"", "a">>, UNCLOSED_STRING) }
    IN  {[doc |-> d, style |-> "compact"] : d \in docs}
        \cup {[doc |-> one, style |-> "spaced"]}

(* The chain lists of find-fields-raw. *)
ChainLists ==
    { <<>>, << << <<"a">> >> >>, << << <<"b">> >>, << <<"a">>, <<"a">> >> >>,
      << << <<"a">> >>, <<>> >> }

ReuseInit ==
    /\ input \in ReuseInputs
    /\ call = NoCall
    /\ handle = NewDomParser

CallFindFieldRawReuse ==
    /\ call = NoCall
    /\ \E chain \in ShortChains :
          \/ /\ chain = <<>>
             /\ call' = [NoCall EXCEPT !.op = "jx_dom_find_field_raw_reuse",
                                       !.chain = chain, !.args = [stray |-> <<>>],
                                       !.crashed = TRUE]
             /\ UNCHANGED handle
          \/ \E stray \in StrayKeys :
                /\ chain = <<>> \/ stray = <<>>
                /\ LET r == jx_dom_find_field_raw_reuse(handle, input, chain, stray)
                   IN  /\ call' = [NoCall EXCEPT
                                      !.op = "jx_dom_find_field_raw_reuse",
                                      !.chain = chain, !.args = [stray |-> stray],
                                      !.ret = r.ret, !.path = "ondemand"]
                       /\ handle' = r.p
    /\ UNCHANGED input

CallFindFieldsRawReuse ==
    /\ call = NoCall
    /\ \E chains \in ChainLists :
          \/ /\ \E i \in 1..Len(chains) : chains[i] = <<>>
             /\ call' = [NoCall EXCEPT !.op = "jx_dom_find_fields_raw_reuse",
                                       !.args = [chains |-> chains, stray |-> <<>>],
                                       !.crashed = TRUE]
             /\ UNCHANGED handle
          \/ \E stray \in StrayKeys :
                /\ (\E i \in 1..Len(chains) : chains[i] = <<>>) \/ stray = <<>>
                /\ LET r == jx_dom_find_fields_raw_reuse(handle, input, chains, stray)
                   IN  /\ call' = [NoCall EXCEPT
                                      !.op = "jx_dom_find_fields_raw_reuse",
                                      !.args = [chains |-> chains, stray |-> stray],
                                      !.ret = r.ret, !.path = "ondemand"]
                       /\ handle' = r.p
    /\ UNCHANGED input

CallFieldLengthReuse ==
    /\ call = NoCall
    /\ \E chain \in ShortChains :
          LET r == jx_dom_field_length_reuse(handle, input, chain)
          IN  /\ call' = [NoCall EXCEPT !.op = "jx_dom_field_length_reuse",
                                        !.chain = chain, !.ret = r.ret, !.path = "tape"]
              /\ handle' = r.p
    /\ UNCHANGED input

CallFieldKeysReuse ==
    /\ call = NoCall
    /\ \E chain \in ShortChains, sorted \in BOOLEAN :
          LET r == jx_dom_field_keys_reuse(handle, input, chain, sorted)
          IN  /\ call' = [NoCall EXCEPT !.op = "jx_dom_field_keys_reuse",
                                        !.chain = chain, !.args = [sorted |-> sorted],
                                        !.ret = r.ret, !.path = "tape"]
              /\ handle' = r.p
    /\ UNCHANGED input

CallFieldHasReuse ==
    /\ call = NoCall
    /\ \E chain \in ShortChains, key \in HasKeys :
          LET r == jx_dom_field_has_reuse(handle, input, chain, key)
          IN  /\ call' = [NoCall EXCEPT !.op = "jx_dom_field_has_reuse",
                                        !.chain = chain, !.args = [key |-> key],
                                        !.ret = r.ret, !.path = "tape"]
              /\ handle' = r.p
    /\ UNCHANGED input

(* The caller frees the result and fills its buffer for the next call; a   *)
(* call that faulted has no next call.                                     *)
NextBuffer ==
    /\ call # NoCall
    /\ ~call.crashed
    /\ call' = NoCall
    /\ input' \in ReuseInputs
    /\ UNCHANGED handle

ReuseNext ==
    CallFindFieldRawReuse \/ CallFindFieldsRawReuse \/ CallFieldLengthReuse
    \/ CallFieldKeysReuse \/ CallFieldHasReuse \/ NextBuffer

ReuseSpec == ReuseInit /\ [][ReuseNext]_vars

(***************************************************************************)
(* The stream operators: each call is given one newline-delimited buffer.  *)
(***************************************************************************)
(* The lines of the streams: objects holding the field as a plain and as   *)
(* an escaped string, as a number, not at all or twice; an array and a     *)
(* string; an object with an integer beyond 64 bits; the malformed lines   *)
(* {z and an object with a malformed member after the field.               *)
StreamDocs ==
    { ObjNode(<<Field(<<"a">>, StrNode(<<"x">>))>>),
      ObjNode(<<Field(<<"b">>, StrNode(<<"q", "q">>)),
                Field(<<"a">>, StrNode(<<"x", "\\", "\"", "y">>)),
                Field(<<"a">>, NumNode(<<"7">>))>>),
      ObjNode(<<Field(<<"a">>, NumNode(<<"7", "5", ".", "8", "0">>))>>),
      ArrNode(<<StrNode(<<"a">>)>>),
      ObjNode(<<Field(<<"a">>, StrNode(<<"x", "y">>)),
                Field(<<"b">>, NumNode(<<"1","8","4","4","6","7","4","4","0","7","3","7","0","9","5","5","1","6","1","6">>))>>),
      BadNode(<<"{", "z">>, TAPE_ERROR),
      ObjNode(<<Field(<<"a">>, StrNode(<<"x", "y", "x">>)),
                Field(<<"b">>, BadNode(<<"z">>, TAPE_ERROR))>>) }

Streams == UNION {[1..n -> StreamDocs] : n \in 0..MaxDocs}

(* The field names asked for. *)
StreamFields == {<<"a">>, <<"b">>}

StreamInit ==
    /\ input \in {[docs |-> docs] : docs \in Streams}
    /\ call = NoCall
    /\ handle = NewDomParser

CallIterateManyCount ==
    /\ call = NoCall
    /\ call' = [NoCall EXCEPT !.op = "jx_iterate_many_count",
                              !.ret = jx_iterate_many_count(input.docs),
                              !.path = "ondemand"]
    /\ UNCHANGED <<input, handle>>

CallIterateManyExtractField ==
    /\ call = NoCall
    /\ \E field \in StreamFields :
          call' = [NoCall EXCEPT !.op = "jx_iterate_many_extract_field",
                                 !.args = [field |-> field],
                                 !.ret = jx_iterate_many_extract_field(input.docs, field),
                                 !.path = "tape"]
    /\ UNCHANGED <<input, handle>>

StreamNext == CallIterateManyCount \/ CallIterateManyExtractField \/ Release

StreamSpec == StreamInit /\ [][StreamNext]_vars

(***************************************************************************)
(* One JxParser handle: the caller parses a buffer, looks fields up in the *)
(* most recent document, and refills its memory between calls.             *)
(***************************************************************************)
(* The buffers given to jx_parse_ondemand: objects with string, integer,   *)
(* decimal and escaped members, a scalar, and two buffers the structural   *)
(* scan rejects for an unclosed string.                                    *)
ParserInputs ==
    LET docs == { ObjNode(<<Field(<<"a">>, StrNode(<<"x">>)),
                            Field(<<"b">>, NumNode(<<"-", "7">>))>>),
                  ObjNode(<<Field(<<"b">>, NumNode(<<"7", "5", ".", "8", "0">>)),
                            Field(<<"a">>, StrNode(<<"x", "\\", "\"", "y">>))>>),
                  NumNode(<<"7">>),
                  ObjNode(<<Field(<<"a">>, BadNode(<<"\"", "y">>, UNCLOSED_STRING))>>),
                  BadNode(<<"\"", "a">>, UNCLOSED_STRING) }
    IN  {[doc |-> d, style |-> "compact"] : d \in docs}

DocKeys == {<<"a">>, <<"b">>}

DocOps ==
    {"jx_doc_find_field_str", "jx_doc_find_field_int64", "jx_doc_find_field_double",
     "jx_doc_type"}

HandleInit ==
    /\ input \in {[in |-> in, id |-> 1] : in \in ParserInputs}
    /\ call = NoCall
    /\ handle = NewParser

CallParseOndemand ==
    /\ call = NoCall
    /\ LET r == jx_parse_ondemand(handle, input)
       IN  /\ call' = [NoCall EXCEPT !.op = "jx_parse_ondemand", !.ret = r.ret,
                                     !.path = "ondemand"]
           /\ handle' = r.p
    /\ UNCHANGED input

CallDocFindFieldStr ==
    /\ call = NoCall
    /\ \E key \in DocKeys : \E o \in DocOutcomes(handle, input, "str", key) :
          /\ call' = [NoCall EXCEPT !.op = "jx_doc_find_field_str",
                                    !.args = [key |-> key], !.ret = o.ret,
                                    !.crashed = o.crashed, !.reads = o.reads,
                                    !.path = "ondemand"]
          /\ handle' = [handle EXCEPT !.document.pos = o.pos]
    /\ UNCHANGED input

CallDocFindFieldInt64 ==
    /\ call = NoCall
    /\ \E key \in DocKeys : \E o \in DocOutcomes(handle, input, "int64", key) :
          /\ call' = [NoCall EXCEPT !.op = "jx_doc_find_field_int64",
                                    !.args = [key |-> key], !.ret = o.ret,
                                    !.crashed = o.crashed, !.reads = o.reads,
                                    !.path = "ondemand"]
          /\ handle' = [handle EXCEPT !.document.pos = o.pos]
    /\ UNCHANGED input

CallDocFindFieldDouble ==
    /\ call = NoCall
    /\ \E key \in DocKeys : \E o \in DocOutcomes(handle, input, "double", key) :
          /\ call' = [NoCall EXCEPT !.op = "jx_doc_find_field_double",
                                    !.args = [key |-> key], !.ret = o.ret,
                                    !.crashed = o.crashed, !.reads = o.reads,
                                    !.path = "ondemand"]
          /\ handle' = [handle EXCEPT !.document.pos = o.pos]
    /\ UNCHANGED input

CallDocType ==
    /\ call = NoCall
    /\ \E o \in DocOutcomes(handle, input, "type", <<>>) :
          /\ call' = [NoCall EXCEPT !.op = "jx_doc_type", !.ret = o.ret,
                                    !.crashed = o.crashed, !.reads = o.reads,
                                    !.path = "ondemand"]
          /\ handle' = [handle EXCEPT !.document.pos = o.pos]
    /\ UNCHANGED input

(* The call has returned: the caller goes on with the same buffer. *)
Returns ==
    /\ call # NoCall
    /\ ~call.crashed
    /\ call' = NoCall
    /\ UNCHANGED <<input, handle>>

(* Between calls the caller refills its memory with the next buffer. *)
RefillBuffer ==
    /\ call = NoCall
    /\ input.id < MaxBuffers
    /\ input' \in {[in |-> in, id |-> input.id + 1] : in \in ParserInputs}
    /\ UNCHANGED <<call, handle>>

HandleNext ==
    CallParseOndemand \/ CallDocFindFieldStr \/ CallDocFindFieldInt64
    \/ CallDocFindFieldDouble \/ CallDocType \/ Returns \/ RefillBuffer

HandleSpec == HandleInit /\ [][HandleNext]_vars

(***************************************************************************)
(* Properties of the token stream.                                         *)
(***************************************************************************)
FlattenOps == {"jx_dom_to_flat", "jx_dom_to_flat_via_tape"}

(* A flatten call that handed a token stream back. *)
Flattened == call.op \in FlattenOps /\ call.ret.written

IsStart(r) == r.tag \in {TAG_ARRAY_START, TAG_OBJECT_START}

IsEnd(r) == r.tag \in {TAG_ARRAY_END, TAG_OBJECT_END}

(* The number of Start records open after each record of ts, as a tuple    *)
(* (the tuple is built once: appending to it makes it a plain sequence).   *)
Levels(ts) ==
    [i \in 1..Len(ts) |->
        Cardinality({j \in 1..i : IsStart(ts[j])})
        - Cardinality({j \in 1..i : IsEnd(ts[j])})] \o <<>>

(* The record that closes the Start record i. *)
CloseOf(ts, lv, i) ==
    LET later == {j \in (i + 1)..Len(ts) : lv[j] = lv[i] - 1}
    IN  CHOOSE j \in later : \A m \in later : j <= m

(* The records between i and its close that begin a direct child value. *)
ChildStarts(lv, ts, i, close) ==
    {c \in (i + 1)..(close - 1) : lv[c - 1] = lv[i] /\ ~IsEnd(ts[c])}

WellBalanced(ts) ==
    LET lv == Levels(ts)
        n == Len(ts)
    IN  /\ n >= 1
        /\ lv[n] = 0
        /\ \A i \in 1..(n - 1) : lv[i] >= 1
        /\ \A i \in 1..n : IsStart(ts[i]) =>
              LET close == CloseOf(ts, lv, i)
                  kids == ChildStarts(lv, ts, i, close)
              IN  /\ ts[close].tag = ts[i].tag + 1
                  /\ IF ts[i].tag = TAG_ARRAY_START
                     THEN ts[i].n = Cardinality(kids)
                     ELSE /\ 2 * ts[i].n = Cardinality(kids)
                          /\ \A c \in kids :
                                (Cardinality({d \in kids : d < c}) % 2 = 0)
                                    => ts[c].tag = TAG_STRING

(* C1: every token stream handed back by either flatten entry point is    *)
(* well balanced: it is one value, every ArrayStart/ObjectStart is closed  *)
(* by the End of its own kind at its own level, an array's count is the    *)
(* number of child values before that End and an object's count the number *)
(* of key+value pairs, each key a String record.                           *)
C1_WellBalanced == Flattened => WellBalanced(call.ret.out_ptr)

(* C1 witness: a stream with an object of two pairs holding an array of    *)
(* two elements has been returned by the tape walk.                        *)
C1_Witness ==
    /\ Flattened
    /\ call.path = "tape"
    /\ \E i, j \in 1..Len(call.ret.out_ptr) :
          /\ i < j
          /\ call.ret.out_ptr[i].tag = TAG_OBJECT_START /\ call.ret.out_ptr[i].n = 2
          /\ call.ret.out_ptr[j].tag = TAG_ARRAY_START /\ call.ret.out_ptr[j].n = 2

(***************************************************************************)
(* What the source document says, read off the document itself.            *)
(***************************************************************************)
RECURSIVE ValidJson(_)
ValidJson(node) ==
    CASE node.t = "bad" -> FALSE
      [] node.t = "arr" -> \A i \in 1..Len(node.kids) : ValidJson(node.kids[i])
      [] node.t = "obj" -> \A i \in 1..Len(node.fields) : ValidJson(node.fields[i].val)
      [] node.t = "nest" -> ValidJson(node.inner)
      [] OTHER -> TRUE

(* The codes of the malformed tokens, in source order. *)
RECURSIVE BadErrs(_)
BadErrs(node) ==
    CASE node.t = "bad" -> <<node.err>>
      [] node.t = "arr" -> Flat([i \in 1..Len(node.kids) |-> BadErrs(node.kids[i])])
      [] node.t = "obj" ->
            Flat([i \in 1..Len(node.fields) |-> BadErrs(node.fields[i].val)])
      [] node.t = "nest" -> BadErrs(node.inner)
      [] OTHER -> <<>>

(* The number literals, in source order. *)
RECURSIVE NumTexts(_)
NumTexts(node) ==
    CASE node.t = "num" -> <<node.text>>
      [] node.t = "arr" -> Flat([i \in 1..Len(node.kids) |-> NumTexts(node.kids[i])])
      [] node.t = "obj" ->
            Flat([i \in 1..Len(node.fields) |-> NumTexts(node.fields[i].val)])
      [] node.t = "nest" -> NumTexts(node.inner)
      [] OTHER -> <<>>

(* The largest number of containers open around any point of the document. *)
RECURSIVE Nesting(_)
Nesting(node) ==
    LET Max(S) == IF S = {} THEN 0 ELSE CHOOSE m \in S : \A x \in S : x <= m
    IN  CASE node.t = "arr" ->
                1 + Max({Nesting(node.kids[i]) : i \in 1..Len(node.kids)})
          [] node.t = "obj" ->
                1 + Max({Nesting(node.fields[i].val) : i \in 1..Len(node.fields)})
          [] node.t = "nest" -> node.k + Nesting(node.inner)
          [] OTHER -> 0

(* An integer literal whose value lies in [-2^63, 2^63). *)
InInt64Range(text) ==
    /\ IsIntegerLiteral(text)
    /\ IF IsNegative(text) THEN DigitsLE(Magnitude(text), INT64_MIN_MAGNITUDE)
       ELSE DigitsLE(text, INT64_MAX_DIGITS)

IsNumberRecord(r) == r.tag \in {TAG_INT, TAG_DOUBLE}

NumberRecords(ts) == SelectSeq(ts, IsNumberRecord)

(* C2 (as claimed): on every valid JSON input the tape entry point returns *)
(* the code and the token stream that the on-demand entry point returns.   *)
C2_PathsAgree ==
    (call.op = "jx_dom_to_flat_via_tape" /\ ValidJson(input.doc))
        => call.ret = jx_dom_to_flat(input)

C5_DepthBound ==
    Flattened =>
        LET lv == Levels(call.ret.out_ptr)
        IN  \A i \in 1..Len(lv) : lv[i] <= MAX_DEPTH

(* C6 (as claimed): a flatten call on a document nested deeper than        *)
(* MAX_DEPTH containers returns DEPTH_ERROR and writes no output.          *)
C6_DeepInputRejected ==
    (call.op \in FlattenOps /\ Nesting(input.doc) > MAX_DEPTH)
        => (call.ret.code = DEPTH_ERROR /\ ~call.ret.written)

(* The error a walk in source order meets first: the structural scan       *)
(* reports an unclosed string before any value is read.                    *)
FirstBadErr(doc) ==
    IF \E i \in 1..Len(BadErrs(doc)) : BadErrs(doc)[i] = UNCLOSED_STRING
    THEN UNCLOSED_STRING
    ELSE BadErrs(doc)[1]

(* C7: a flatten call that meets a malformed token returns that token's    *)
(* error code, and a flatten call that returns a nonzero code leaves the   *)
(* caller's out_ptr and out_len unwritten.                                 *)
C7_NoPartialOutput ==
    call.op \in FlattenOps =>
        /\ call.ret.code # 0 => ~call.ret.written
        /\ ~ValidJson(input.doc) =>
              (call.ret.code = FirstBadErr(input.doc) /\ ~call.ret.written)

(* C7 witness: the on-demand walk failed on the second element of an array *)
(* after emitting records for the first.                                   *)
C7_Witness ==
    /\ call.op = "jx_dom_to_flat"
    /\ input.doc.t = "arr"
    /\ Len(input.doc.kids) = 2
    /\ input.doc.kids[1].t = "null"
    /\ input.doc.kids[2].t = "bad"
    /\ call.ret.code = TAPE_ERROR

(* C8: the tape entry point runs path A exactly when the tape parser       *)
(* rejects the input with NUMBER_ERROR or BIGINT_ERROR, and then returns   *)
(* what jx_dom_to_flat returns; any other tape-parser error is returned as *)
(* it is without a walk, and a successful tape parse is walked on path B.  *)
C8_Fallback ==
    call.op = "jx_dom_to_flat_via_tape" =>
        LET err == DomParse(input)
        IN  /\ (call.path = "ondemand") <=> (err \in {NUMBER_ERROR, BIGINT_ERROR})
            /\ call.path = "ondemand" => call.ret = jx_dom_to_flat(input)
            /\ err \notin {SUCCESS, NUMBER_ERROR, BIGINT_ERROR} =>
                  (call.path = "none" /\ call.ret = Returned(err))
            /\ err = SUCCESS => call.path = "tape"

(* C8 witness: the tape parser rejected a malformed number with            *)
(* NUMBER_ERROR and the call came back from path A.                        *)
C8_Witness ==
    /\ call.op = "jx_dom_to_flat_via_tape"
    /\ DomParse(input) = NUMBER_ERROR
    /\ call.path = "ondemand"

(* The records a document calls for, in source order, without the counts:  *)
(* inside an object every pair is the key's string followed by the value.  *)
RECURSIVE Expected(_)
Expected(node) ==
    CASE node.t = "null" -> <<[k |-> "null"]>>
      [] node.t = "bool" -> <<[k |-> "bool", b |-> node.b]>>
      [] node.t = "num" ->
            <<[k |-> "num",
               v |-> IF InInt64Range(node.text) THEN IntValue(node.text)
                     ELSE DoubleValue(node.text)]>>
      [] node.t = "str" -> <<[k |-> "str", s |-> Unescape(node.raw)]>>
      [] node.t = "arr" ->
            <<[k |-> "["]>>
            \o Flat([i \in 1..Len(node.kids) |-> Expected(node.kids[i])])
            \o <<[k |-> "]"]>>
      [] node.t = "obj" ->
            <<[k |-> "{"]>>
            \o Flat([i \in 1..Len(node.fields) |->
                        <<[k |-> "str", s |-> Unescape(node.fields[i].key)]>>
                        \o Expected(node.fields[i].val)])
            \o <<[k |-> "}"]>>
      [] node.t = "nest" ->
            Repeat([k |-> "["], node.k) \o Expected(node.inner)
            \o Repeat([k |-> "]"], node.k)

Shape(r) ==
    CASE r.tag = TAG_NULL -> [k |-> "null"]
      [] r.tag = TAG_BOOL -> [k |-> "bool", b |-> (r.v = 1)]
      [] r.tag \in {TAG_INT, TAG_DOUBLE} -> [k |-> "num", v |-> r.v]
      [] r.tag = TAG_STRING -> [k |-> "str", s |-> r.bytes]
      [] r.tag = TAG_ARRAY_START -> [k |-> "["]
      [] r.tag = TAG_ARRAY_END -> [k |-> "]"]
      [] r.tag = TAG_OBJECT_START -> [k |-> "{"]
      [] r.tag = TAG_OBJECT_END -> [k |-> "}"]

(* C9: a returned stream lists the array elements and the object pairs in  *)
(* source order, every pair as a String record with the unescaped key      *)
(* immediately followed by the records of its value.                       *)
C9_SourceOrder ==
    Flattened =>
        [i \in 1..Len(call.ret.out_ptr) |-> Shape(call.ret.out_ptr[i])]
            = Expected(input.doc)

(* C9 witness: a stream was returned for an object of two pairs with       *)
(* different keys and different values.                                    *)
C9_Witness ==
    /\ Flattened
    /\ input.doc.t = "obj"
    /\ Len(input.doc.fields) = 2
    /\ input.doc.fields[1].key # input.doc.fields[2].key
    /\ input.doc.fields[1].val.t # input.doc.fields[2].val.t

FastPathOps == {"jx_dom_find_field_raw", "jx_dom_field_length"}

(* C10 (as claimed): a fast-path operator given invalid JSON returns a     *)
(* positive parser error code.                                             *)
C10_InvalidJsonPositive ==
    (call.op \in FastPathOps /\ ~call.crashed /\ ~ValidJson(input.doc))
        => call.ret.code > 0

(***************************************************************************)
(* Properties of the fast-path operators.                                  *)
(***************************************************************************)
(* Navigation as published: from node, one object descent per chain        *)
(* element, by the key's unescaped name, the first pair of that name.      *)
RECURSIVE Resolve(_, _)
Resolve(node, chain) ==
    IF chain = <<>> THEN [ok |-> TRUE, node |-> node]
    ELSE IF node.t # "obj" THEN [ok |-> FALSE, node |-> node]
    ELSE LET named == {i \in 1..Len(node.fields) :
                          Unescape(node.fields[i].key) = Head(chain)}
         IN  IF named = {} THEN [ok |-> FALSE, node |-> node]
             ELSE Resolve(node.fields[CHOOSE i \in named : \A j \in named : i <= j].val,
                          Tail(chain))

NullText == <<"n", "u", "l", "l">>

(* The call signalled the soft miss, as its return code or in *out_len. *)
SoftSignalled == call.ret.code = -2 \/ call.ret.out_len = -2

(* No buffer was handed to the caller. *)
NoBuffer == ~call.ret.written \/ call.ret.out_ptr = NULLPTR

MoreFastPathOps ==
    FastPathOps
    \cup {"jx_dom_field_keys", "jx_dom_field_has", "jx_dom_array_map_field",
          "jx_dom_array_map_fields_obj", "jx_dom_array_map_builtin"}

(* C11: whenever a fast-path operator signals the soft miss -2, as its     *)
(* return code or in the length slot, the caller is handed no buffer:      *)
(* *out_ptr is null or unwritten, also when an array-map call meets the    *)
(* soft miss after earlier elements were serialized.                       *)
C11_SoftMissNoBuffer ==
    (call.op \in MoreFastPathOps /\ ~call.crashed /\ SoftSignalled) => NoBuffer

(* C11 witness: array-map-field returned -2 for an array whose first       *)
(* element is an object and whose second is a number.                      *)
C11_Witness ==
    /\ call.op = "jx_dom_array_map_field"
    /\ call.chain = <<>>
    /\ input.doc.t = "arr"
    /\ Len(input.doc.kids) = 3
    /\ input.doc.kids[1].t = "obj"
    /\ input.doc.kids[2].t = "num"
    /\ call.ret.code = -2

(* C12 (as claimed): find-field-raw on valid JSON reads only the chain's   *)
(* own elements and makes one object descent per element: the call does    *)
(* not fault, a chain that resolves returns the text of the addressed      *)
(* value (the root for the empty chain) and any other chain returns null.  *)
C12_OneDescentPerElement ==
    (call.op = "jx_dom_find_field_raw" /\ ValidJson(input.doc)) =>
        LET r == Resolve(input.doc, call.chain)
        IN  /\ ~call.crashed
            /\ call.ret.code = 0
            /\ call.ret.out_ptr = IF r.ok THEN trim_raw_json(Render(r.node, input.style))
                                  ELSE NullText

(* C13 (as claimed): find-field-raw on valid JSON returns 0 with the four  *)
(* bytes null whenever a step of the chain meets a non-object or a missing *)
(* key, and never those bytes for a chain resolving to a non-null value.   *)
C13_NullOnSoftMiss ==
    (call.op = "jx_dom_find_field_raw" /\ ValidJson(input.doc) /\ ~call.crashed) =>
        LET r == Resolve(input.doc, call.chain)
        IN  /\ call.ret.code = 0
            /\ ~r.ok => (call.ret.out_ptr = NullText /\ call.ret.out_len = 4)
            /\ (r.ok /\ r.node.t # "null") => call.ret.out_ptr # NullText

(* The values inside a document, the document included. *)
RECURSIVE Subtrees(_)
Subtrees(node) ==
    {node} \cup
    CASE node.t = "arr" -> UNION {Subtrees(node.kids[i]) : i \in 1..Len(node.kids)}
      [] node.t = "obj" ->
            UNION {Subtrees(node.fields[i].val) : i \in 1..Len(node.fields)}
      [] node.t = "nest" -> Subtrees(node.inner)
      [] OTHER -> {}

(* ts holds sub as a run of consecutive records. *)
HoldsRun(ts, sub) ==
    \E off \in 0..(Len(ts) - Len(sub)) : SubSeq(ts, off + 1, off + Len(sub)) = sub

(* C14 (as claimed): for valid JSON and a chain that resolves, the         *)
(* fragment find-field-raw returns ends in no whitespace or comma and is   *)
(* the text of a value whose flattening is exactly the run of records      *)
(* that the flattening of the whole document holds for the addressed       *)
(* subtree.                                                                *)
C14_FragmentMatchesFlatten ==
    (/\ call.op = "jx_dom_find_field_raw"
     /\ ValidJson(input.doc)
     /\ ~call.crashed
     /\ Resolve(input.doc, call.chain).ok
     /\ jx_dom_to_flat(input).written) =>
        LET n == Resolve(input.doc, call.chain).node
            frag == call.ret.out_ptr
            denoted == {m \in Subtrees(input.doc) :
                           trim_raw_json(Render(m, input.style)) = frag}
            sub == jx_dom_to_flat([doc |-> n, style |-> input.style]).out_ptr
        IN  /\ call.ret.code = 0
            /\ frag # <<>>
            /\ frag[Len(frag)] \notin {" ", "\n", "\r", "\t", ","}
            /\ denoted # {}
            /\ \A m \in denoted :
                  jx_dom_to_flat([doc |-> m, style |-> input.style]).out_ptr = sub
            /\ HoldsRun(jx_dom_to_flat(input).out_ptr, sub)

(* The count field-length reports for a value. *)
PublishedLength(node) ==
    CASE node.t = "obj" -> Len(node.fields)
      [] node.t = "arr" -> Len(node.kids)
      [] node.t = "nest" -> 1
      [] node.t = "str" -> Len(Unescape(node.raw))
      [] OTHER -> 0

(* The buffer is a decimal-ASCII integer of value n. *)
IsDecimalOf(ret, n) ==
    /\ ret.code = 0
    /\ ret.written
    /\ ret.out_len = Len(ret.out_ptr)
    /\ ret.out_len >= 1
    /\ \A i \in 1..Len(ret.out_ptr) : ret.out_ptr[i] \in Digits
    /\ DigitsToNat(ret.out_ptr) = n

(* C15: on a document the tape parser accepts, field-length returns the    *)
(* decimal key count of an object, element count of an array, unescaped    *)
(* byte length of a string, 0 for null and 0 for a chain that soft-misses; *)
(* for a boolean or a number it signals -2 and hands back no buffer.       *)
C15_FieldLength ==
    (call.op = "jx_dom_field_length" /\ DomParse(input) = SUCCESS) =>
        LET r == Resolve(input.doc, call.chain)
        IN  IF ~r.ok THEN IsDecimalOf(call.ret, 0)
            ELSE IF r.node.t \in {"bool", "num"} THEN SoftSignalled /\ NoBuffer
            ELSE IsDecimalOf(call.ret, PublishedLength(r.node))

(* C15 witness: field-length measured a string whose text holds an escape. *)
C15_Witness ==
    /\ call.op = "jx_dom_field_length"
    /\ call.chain = << <<"a">> >>
    /\ DomParse(input) = SUCCESS
    /\ Resolve(input.doc, call.chain).ok
    /\ Resolve(input.doc, call.chain).node.t = "str"
    /\ Len(Unescape(Resolve(input.doc, call.chain).node.raw))
          < Len(Resolve(input.doc, call.chain).node.raw)
    /\ call.ret.code = 0

(* a <= b in byte-wise lexical order: equal up to the shorter's end with a *)
(* no longer than b, or smaller at the first byte where they differ.       *)
LexLE(a, b) ==
    LET m == IF Len(a) < Len(b) THEN Len(a) ELSE Len(b)
        diff == {i \in 1..m : a[i] # b[i]}
        d == CHOOSE i \in diff : \A j \in diff : i <= j
    IN  IF diff = {} THEN Len(a) <= Len(b)
        ELSE CharCode(a[d]) < CharCode(b[d])

KeyOrders(n) == {p \in [1..n -> 1..n] : \A i, j \in 1..n : p[i] = p[j] => i = j}

(* The keys of an object as the buffer spells them, in the order p. *)
KeyList(node, p) ==
    JoinList([i \in 1..Len(node.fields) |-> Quoted(node.fields[p[i]].key)])

(* C16: on a document the tape parser accepts, field-keys returns for an   *)
(* object the JSON array of its escaped keys, in insertion order when      *)
(* sorted is unset and in ascending byte-wise order when it is set (a      *)
(* permutation of the same keys); for an array of n elements it returns    *)
(* the indexes 0 to n-1; for any other value, null included, it signals -2 *)
(* and hands back no buffer.                                               *)
C16_FieldKeys ==
    (/\ call.op = "jx_dom_field_keys"
     /\ DomParse(input) = SUCCESS
     /\ Resolve(input.doc, call.chain).ok) =>
        LET node == Resolve(input.doc, call.chain).node
            n == PublishedLength(node)
        IN  CASE node.t = "obj" ->
                    /\ call.ret.code = 0
                    /\ call.ret.written
                    /\ call.ret.out_len = Len(call.ret.out_ptr)
                    /\ IF call.args.sorted
                       THEN \E p \in KeyOrders(n) :
                               /\ \A i \in 1..(n - 1) :
                                     LexLE(Unescape(node.fields[p[i]].key),
                                           Unescape(node.fields[p[i + 1]].key))
                               /\ call.ret.out_ptr = KeyList(node, p)
                       ELSE call.ret.out_ptr = KeyList(node, [i \in 1..n |-> i])
              [] node.t \in {"arr", "nest"} ->
                    /\ call.ret.code = 0
                    /\ call.ret.written
                    /\ call.ret.out_len = Len(call.ret.out_ptr)
                    /\ call.ret.out_ptr =
                          JoinList([i \in 1..n |->
                                       <<CHOOSE c \in Digits : DigitVal(c) = i - 1>>])
              [] OTHER -> SoftSignalled /\ NoBuffer

(* C16 witness: sorted keys were returned for an object whose keys are not *)
(* in ascending order in the source and one of which holds an escape.      *)
C16_Witness ==
    /\ call.op = "jx_dom_field_keys"
    /\ call.args.sorted
    /\ call.chain = <<>>
    /\ input.doc.t = "obj"
    /\ Len(input.doc.fields) = 3
    /\ input.doc.fields[1].key = <<"k", "\\", "n">>
    /\ call.ret.code = 0
    /\ call.ret.out_ptr # KeyList(input.doc, <<1, 2, 3>>)

(* C17: on a document the tape parser accepts, field-has returns 0 with    *)
(* the flag 1 when the addressed value is an object holding the key and    *)
(* with the flag 0 when it is an object lacking it; when the addressed     *)
(* value is no object or the chain soft-misses it returns -2 and leaves    *)
(* the flag unwritten.                                                     *)
C17_FieldHas ==
    (call.op = "jx_dom_field_has" /\ DomParse(input) = SUCCESS) =>
        LET r == Resolve(input.doc, call.chain)
        IN  IF r.ok /\ r.node.t = "obj"
            THEN /\ call.ret.code = 0
                 /\ call.ret.written
                 /\ (call.ret.out_ptr = <<1>>) <=>
                       (\E i \in 1..Len(r.node.fields) :
                           Unescape(r.node.fields[i].key) = call.args.key)
                 /\ call.ret.out_ptr \in {<<0>>, <<1>>}
            ELSE call.ret.code = -2 /\ ~call.ret.written

(* C17 witness: field-has found an escaped key in an object. *)
C17_Witness ==
    /\ call.op = "jx_dom_field_has"
    /\ call.args.key = <<"k", "\n">>
    /\ call.ret.code = 0
    /\ call.ret.out_ptr = <<1>>

(* The fragments joined as the array-map operators lay them out. *)
Joined(frags, wrap_array) ==
    IF wrap_array THEN JoinList(frags)
    ELSE Flat([i \in 1..Len(frags) |->
                  (IF i > 1 THEN <<"\n">> ELSE <<>>) \o frags[i]])

(* The elements of an array value. *)
ElementsOf(node) ==
    IF node.t = "nest"
    THEN <<IF node.k = 1 THEN node.inner ELSE NestNode(node.k - 1, node.inner)>>
    ELSE node.kids

IsArrayValue(node) == node.t \in {"arr", "nest"}

(* C18: on a document the tape parser accepts, array-map-field returns -2  *)
(* when the prefix does not resolve to an array or any element, at any     *)
(* position, is neither null nor an object; otherwise it emits one         *)
(* fragment per element in order: null for a null element and for an       *)
(* object in which the secondary chain misses, else the serialized         *)
(* addressed value.                                                        *)
C18_ArrayMapField ==
    (call.op = "jx_dom_array_map_field" /\ DomParse(input) = SUCCESS) =>
        LET t == Resolve(input.doc, call.chain)
            es == ElementsOf(t.node)
            One(e) == IF e.t = "null" \/ ~Resolve(e, call.args.fields).ok THEN NullText
                      ELSE DomToString(Resolve(e, call.args.fields).node)
        IN  IF ~t.ok \/ ~IsArrayValue(t.node)
               \/ \E i \in 1..Len(es) : es[i].t \notin {"null", "obj"}
            THEN call.ret.code = -2 /\ ~call.ret.written
            ELSE /\ call.ret.code = 0
                 /\ call.ret.written
                 /\ call.ret.out_ptr =
                       Joined([i \in 1..Len(es) |-> One(es[i])], call.args.wrap_array)

(* C18 witness: behind a prefix key, an array of an object, a null and an  *)
(* object was mapped to a nested object, null and a number.                *)
C18_Witness ==
    /\ call.op = "jx_dom_array_map_field"
    /\ call.chain = << <<"a">> >>
    /\ call.args.fields = << <<"a">> >>
    /\ call.args.wrap_array
    /\ call.ret.code = 0
    /\ call.ret.out_ptr = <<"[", "{", "\"", "a", "\"", ":", "n", "u", "l", "l", "}", ",",
                            "n", "u", "l", "l", ",", "7", "5", ".", "8", "]">>
    /\ input.doc.t = "obj"
    /\ input.doc.fields[1].val.t = "arr"
    /\ Len(input.doc.fields[1].val.kids) = 3
    /\ input.doc.fields[1].val.kids[2].t = "null"

(* C19: on a document the tape parser accepts, array-map-fields-obj emits  *)
(* per element one object of exactly field_count members in the supplied   *)
(* order, each the caller's key bytes verbatim, a colon and the value: all *)
(* values null for a null element, null for a missing field only; an       *)
(* element that is neither null nor an object makes the call return -2.    *)
C19_ArrayMapFieldsObj ==
    (/\ call.op = "jx_dom_array_map_fields_obj"
     /\ DomParse(input) = SUCCESS
     /\ Resolve(input.doc, call.chain).ok
     /\ IsArrayValue(Resolve(input.doc, call.chain).node)) =>
        LET es == ElementsOf(Resolve(input.doc, call.chain).node)
            keys == call.args.keys
            fields == call.args.fields
            Value(e, f) == IF e.t = "null" \/ ~Resolve(e, <<f>>).ok THEN NullText
                           ELSE DomToString(Resolve(e, <<f>>).node)
            Members(e) == [i \in 1..Len(fields) |->
                              (IF i > 1 THEN <<",">> ELSE <<>>) \o keys[i] \o <<":">>
                              \o Value(e, fields[i])]
            One(e) == <<"{">> \o Flat(Members(e)) \o <<"}">>
        IN  IF \E i \in 1..Len(es) : es[i].t \notin {"null", "obj"}
            THEN call.ret.code = -2 /\ ~call.ret.written
            ELSE /\ call.ret.code = 0
                 /\ call.ret.written
                 /\ call.ret.out_ptr =
                       Joined([i \in 1..Len(es) |-> One(es[i])], call.args.wrap_array)

(* C19 witness: two members per element were emitted, under a key that is  *)
(* not the field's name, for an array that starts with a null element.     *)
C19_Witness ==
    /\ call.op = "jx_dom_array_map_fields_obj"
    /\ Len(call.args.keys) = 2
    /\ call.chain = <<>>
    /\ call.ret.code = 0
    /\ input.doc.t = "arr"
    /\ Len(input.doc.kids) = 3
    /\ input.doc.kids[1].t = "null"

(* What the per-value operator returns for the document made of e alone,   *)
(* with the empty chain.                                                   *)
PerValue(e, args) ==
    LET doc == [doc |-> e, style |-> "compact"]
        has == jx_dom_field_has(doc, <<>>, args.arg)
    IN  CASE args.op = 0 -> jx_dom_field_length(doc, <<>>)
          [] args.op = 1 -> jx_dom_field_keys(doc, <<>>, args.sorted)
          [] args.op = 3 ->
                IF has.code # 0 THEN has
                ELSE Wrote(IF has.out_ptr = <<1>> THEN <<"t", "r", "u", "e">>
                           ELSE <<"f", "a", "l", "s", "e">>, 0)

(* C20 (as claimed): for op in length, keys, has(arg), array-map-builtin   *)
(* emits per element the fragment the per-value operator produces for that *)
(* element, and returns -2 exactly when the per-value operator soft-misses *)
(* on some element.                                                        *)
C20_BuiltinMatchesPerValue ==
    (/\ call.op = "jx_dom_array_map_builtin"
     /\ call.args.op \in {0, 1, 3}
     /\ DomParse(input) = SUCCESS
     /\ Resolve(input.doc, call.chain).ok
     /\ IsArrayValue(Resolve(input.doc, call.chain).node)) =>
        LET es == ElementsOf(Resolve(input.doc, call.chain).node)
            per == [i \in 1..Len(es) |-> PerValue(es[i], call.args)]
            Soft(r) == r.code = -2 \/ r.out_len = -2
        IN  IF \E i \in 1..Len(es) : Soft(per[i])
            THEN call.ret.code = -2
            ELSE /\ call.ret.code = 0
                 /\ call.ret.out_ptr =
                       Joined([i \in 1..Len(es) |-> per[i].out_ptr],
                              call.args.wrap_array)

(* The JSON type name of a value, as a JSON string literal. *)
TypeName(node) ==
    Quoted(CASE node.t = "obj" -> <<"o", "b", "j", "e", "c", "t">>
             [] node.t \in {"arr", "nest"} -> <<"a", "r", "r", "a", "y">>
             [] node.t = "str" -> <<"s", "t", "r", "i", "n", "g">>
             [] node.t = "num" -> <<"n", "u", "m", "b", "e", "r">>
             [] node.t = "bool" -> <<"b", "o", "o", "l", "e", "a", "n">>
             [] node.t = "null" -> <<"n", "u", "l", "l">>)

(* C21: on a document the tape parser accepts, array-map-builtin with      *)
(* op = type over the array the prefix reaches never soft-misses on an     *)
(* element: it returns 0 and emits for every element the name of its JSON  *)
(* type as a string literal, every number being "number".                  *)
C21_TypeNames ==
    (/\ call.op = "jx_dom_array_map_builtin"
     /\ call.args.op = 2
     /\ DomParse(input) = SUCCESS
     /\ Resolve(input.doc, call.chain).ok
     /\ IsArrayValue(Resolve(input.doc, call.chain).node)) =>
        LET es == ElementsOf(Resolve(input.doc, call.chain).node)
        IN  /\ call.ret.code = 0
            /\ call.ret.written
            /\ call.ret.out_ptr =
                  Joined([i \in 1..Len(es) |-> TypeName(es[i])], call.args.wrap_array)

(* C21 witness: the array of a number, a string, null, an object and an    *)
(* array was mapped to the five type names.                                *)
C21_Witness ==
    /\ call.op = "jx_dom_array_map_builtin"
    /\ call.args.op = 2
    /\ call.args.wrap_array
    /\ input.doc.t = "arr"
    /\ Len(input.doc.kids) = 5
    /\ call.ret.code = 0
    /\ call.ret.out_ptr =
          <<"[">> \o Quoted(<<"n", "u", "m", "b", "e", "r">>) \o <<",">>
          \o Quoted(<<"s", "t", "r", "i", "n", "g">>) \o <<",">>
          \o Quoted(<<"n", "u", "l", "l">>) \o <<",">>
          \o Quoted(<<"o", "b", "j", "e", "c", "t">>) \o <<",">>
          \o Quoted(<<"a", "r", "r", "a", "y">>) \o <<"]">>

(* The source text of a value: its bytes in the buffer, from its first     *)
(* byte to its last, without the whitespace that follows it.               *)
RECURSIVE Unspaced(_)
Unspaced(text) ==
    IF text # <<>> /\ text[Len(text)] = " " THEN Unspaced(SubSeq(text, 1, Len(text) - 1))
    ELSE text

SourceText(node, style) == Unspaced(Render(node, style))

(* The first byte at or after c that is no whitespace, comma or colon. *)
FirstTokenFrom(buf, c) ==
    LET at == {i \in c..(Len(buf) + 1) : At(buf, i) \notin {" ", "\n", "\r", "\t", ",", ":"}}
    IN  CHOOSE i \in at : \A j \in at : i <= j

(* The walk_element call on elem entered with the cursor at c0, and every  *)
(* call below it: after the skip the cursor is at the first byte of the    *)
(* element's source text, on return just past its last byte and not        *)
(* beyond the end of the buffer; each key is met at its opening quote.     *)
RECURSIVE InStep(_, _, _, _, _)
RECURSIVE KidsInStep(_, _, _, _, _, _)
RECURSIVE FieldsInStep(_, _, _, _, _, _)
InStep(elem, buf, style, c0, depth) ==
    LET s == FirstTokenFrom(buf, c0)
        text == SourceText(elem, style)
        r == walk_element(<<>>, elem, buf, c0, depth)
    IN  /\ r.err = SUCCESS
        /\ r.sync
        /\ Slice(buf, s, s + Len(text)) = text
        /\ r.cursor = s + Len(text)
        /\ r.cursor <= Len(buf) + 1
        /\ CASE elem.t = "arr" -> KidsInStep(elem, buf, style, s + 1, 1, depth)
             [] elem.t = "obj" -> FieldsInStep(elem, buf, style, s + 1, 1, depth)
             [] elem.t = "nest" ->
                   InStep(elem.inner, buf, style,
                          s + Len(Brackets("[", elem.k, style)), depth + elem.k)
             [] OTHER -> TRUE

KidsInStep(elem, buf, style, c, i, depth) ==
    IF i > Len(elem.kids) THEN TRUE
    ELSE /\ InStep(elem.kids[i], buf, style, c, depth + 1)
         /\ KidsInStep(elem, buf, style,
                       walk_element(<<>>, elem.kids[i], buf, c, depth + 1).cursor,
                       i + 1, depth)

FieldsInStep(elem, buf, style, c, i, depth) ==
    IF i > Len(elem.fields) THEN TRUE
    ELSE LET at_key == FirstTokenFrom(buf, c)
             key == Quoted(elem.fields[i].key)
             past_key == skip_json_string(buf, at_key)
         IN  /\ Slice(buf, at_key, at_key + Len(key)) = key
             /\ past_key = at_key + Len(key)
             /\ InStep(elem.fields[i].val, buf, style, past_key, depth + 1)
             /\ FieldsInStep(elem, buf, style,
                             walk_element(<<>>, elem.fields[i].val, buf, past_key,
                                          depth + 1).cursor,
                             i + 1, depth)

(* C25: when the tape walk runs on a valid JSON input, every walk_element  *)
(* call finds the cursor, after the skip of whitespace, commas and colons, *)
(* at the first byte of its element's source text and leaves it just past  *)
(* the element's last byte; keys are met at their opening quote; the       *)
(* cursor never passes the end of the buffer.                              *)
C25_CursorInStep ==
    (/\ call.op = "jx_dom_to_flat_via_tape"
     /\ call.path = "tape"
     /\ ValidJson(input.doc)) =>
        /\ call.sync
        /\ call.cursor = 1 + Len(SourceText(input.doc, input.style))
        /\ call.cursor <= Len(Bytes(input)) + 1
        /\ InStep(input.doc, Bytes(input), input.style, 1, 0)

(* C25 witness: the walk ran over a spaced array of two objects, holding   *)
(* numbers, nested containers and a string with an escaped quote, and a    *)
(* string that ends in an escaped backslash.                               *)
C25_Witness ==
    /\ call.op = "jx_dom_to_flat_via_tape"
    /\ call.path = "tape"
    /\ call.ret.code = 0
    /\ input.style = "spaced"
    /\ input.doc.t = "arr"
    /\ Len(input.doc.kids) = 3
    /\ input.doc.kids[1].t = "obj"
    /\ input.doc.kids[3].t = "str"

ArrayMapOps ==
    {"jx_dom_array_map_field", "jx_dom_array_map_fields_obj", "jx_dom_array_map_builtin"}

(* The positions in text of the byte sep outside every string and every    *)
(* bracket: i is the position read, depth the brackets open, inStr whether *)
(* a string is open.                                                       *)
RECURSIVE TopLevelAt(_, _, _, _, _)
TopLevelAt(text, sep, i, depth, inStr) ==
    IF i > Len(text) THEN {}
    ELSE IF inStr
         THEN IF text[i] = "\\" THEN TopLevelAt(text, sep, i + 2, depth, TRUE)
              ELSE TopLevelAt(text, sep, i + 1, depth, text[i] # "\"")
         ELSE CASE text[i] = "\"" -> TopLevelAt(text, sep, i + 1, depth, TRUE)
                [] text[i] \in {"[", "{"} -> TopLevelAt(text, sep, i + 1, depth + 1, FALSE)
                [] text[i] \in {"]", "}"} -> TopLevelAt(text, sep, i + 1, depth - 1, FALSE)
                [] OTHER ->
                      (IF text[i] = sep /\ depth = 0 THEN {i} ELSE {})
                      \cup TopLevelAt(text, sep, i + 1, depth, FALSE)

(* C26: an array-map call that succeeds on an array of n elements returns  *)
(* n nonempty fragments joined by n - 1 separators: inside one pair of     *)
(* brackets and joined by commas in wrap mode, joined by single newlines   *)
(* with none leading or trailing otherwise; for n = 0 the output is the    *)
(* empty pair of brackets, respectively empty.                             *)
C26_Framing ==
    (/\ call.op \in ArrayMapOps
     /\ call.ret.code = 0
     /\ call.ret.written
     /\ Resolve(input.doc, call.chain).ok
     /\ IsArrayValue(Resolve(input.doc, call.chain).node)) =>
        LET n == Len(ElementsOf(Resolve(input.doc, call.chain).node))
            out == call.ret.out_ptr
            wrap == call.args.wrap_array
            body == IF wrap THEN SubSeq(out, 2, Len(out) - 1) ELSE out
            seps == TopLevelAt(body, IF wrap THEN "," ELSE "\n", 1, 0, FALSE)
            other == TopLevelAt(body, IF wrap THEN "\n" ELSE ",", 1, 0, FALSE)
        IN  /\ call.ret.out_len = Len(out)
            /\ wrap => (Len(out) >= 2 /\ out[1] = "[" /\ out[Len(out)] = "]")
            /\ other = {}
            /\ IF n = 0 THEN body = <<>>
               ELSE /\ Cardinality(seps) = n - 1
                    /\ 1 \notin seps
                    /\ Len(body) \notin seps
                    /\ \A i \in seps : i + 1 \notin seps

(* C26 witness: three elements were emitted in newline mode. *)
C26_Witness ==
    /\ call.op = "jx_dom_array_map_fields_obj"
    /\ ~call.args.wrap_array
    /\ Len(call.args.keys) = 2
    /\ call.ret.code = 0
    /\ call.ret.written
    /\ input.doc.t = "arr"
    /\ Len(input.doc.kids) = 3
    /\ Cardinality(TopLevelAt(call.ret.out_ptr, "\n", 1, 0, FALSE)) = 2

(* C29 (as claimed): array-map-builtin called with an op outside 0..3 on a *)
(* document that parses returns -1 and hands back no buffer, whatever the  *)
(* prefix, the target's type and the number of elements.                   *)
C29_BadOpRejected ==
    (/\ call.op = "jx_dom_array_map_builtin"
     /\ call.args.op \notin {0, 1, 2, 3}
     /\ DomParse(input) = SUCCESS) =>
        call.ret.code = -1 /\ ~call.ret.written

ReuseOps ==
    {"jx_dom_find_field_raw_reuse", "jx_dom_find_fields_raw_reuse",
     "jx_dom_field_length_reuse", "jx_dom_field_keys_reuse", "jx_dom_field_has_reuse"}

(* C27 (as claimed): field-length on a handle returns what field-length    *)
(* returns for the same buffer and chain: the same decimal fragment        *)
(* whenever field-length returns one, and a fallback signal exactly when   *)
(* field-length signals fallback.                                          *)
C27_ReuseMatchesFieldLength ==
    (call.op = "jx_dom_field_length_reuse") =>
        LET plain == jx_dom_field_length(input, call.chain)
            PlainSoft == plain.code = -2 \/ plain.out_len = -2
        IN  /\ PlainSoft <=> SoftSignalled
            /\ ~PlainSoft => call.ret = plain

(* What the same call returns on a handle fresh from jx_dom_parser_new. *)
OnFreshHandle ==
    CASE call.op = "jx_dom_find_field_raw_reuse" ->
            jx_dom_find_field_raw_reuse(NewDomParser, input, call.chain,
                                        call.args.stray).ret
      [] call.op = "jx_dom_find_fields_raw_reuse" ->
            jx_dom_find_fields_raw_reuse(NewDomParser, input, call.args.chains,
                                         call.args.stray).ret
      [] call.op = "jx_dom_field_length_reuse" ->
            jx_dom_field_length_reuse(NewDomParser, input, call.chain).ret
      [] call.op = "jx_dom_field_keys_reuse" ->
            jx_dom_field_keys_reuse(NewDomParser, input, call.chain,
                                    call.args.sorted).ret
      [] call.op = "jx_dom_field_has_reuse" ->
            jx_dom_field_has_reuse(NewDomParser, input, call.chain, call.args.key).ret

ValidDocs(docs) == {i \in 1..Len(docs) : ValidJson(docs[i])}

FieldBytes(d, field) ==
    IF ValidJson(d) /\ d.t = "obj" /\ DomAtKey(d, field).found
       /\ DomAtKey(d, field).value.t = "str"
    THEN Len(Unescape(DomAtKey(d, field).value.raw))
    ELSE 0

RECURSIVE TotalBytes(_, _)
TotalBytes(docs, field) ==
    IF docs = <<>> THEN 0
    ELSE FieldBytes(Head(docs), field) + TotalBytes(Tail(docs), field)

(* C23 (as claimed): field extraction returns code 0 and the sum of the    *)
(* byte lengths of the field over exactly the documents that are valid,    *)
(* are objects and hold the field as a string.                             *)
C23_SumsValidDocuments ==
    (call.op = "jx_iterate_many_extract_field") =>
        /\ call.ret.code = 0
        /\ call.ret.written
        /\ call.ret.out_ptr = <<TotalBytes(input.docs, call.args.field)>>

(* C24 (as claimed): once an operation has returned the engine holds no    *)
(* reference to the caller's buffer, so no lookup on the handle reads a    *)
(* buffer that was passed to an earlier call.                              *)
C24_NoRetainedBuffer ==
    call.op \in DocOps => call.reads = 0

(* The most recent jx_parse_ondemand on the handle returned an error: the  *)
(* parser scanned a buffer the document was not assigned from.             *)
LastParseFailed ==
    /\ handle.parser.index # 0
    /\ handle.document.state = "none" \/ handle.document.buf # handle.parser.index

(* C28 (as claimed): after a parse that returned a non-zero code every     *)
(* lookup on the handle returns a non-zero code until a parse succeeds.    *)
C28_NoStaleAnswers ==
    (call.op \in DocOps /\ ~call.crashed /\ LastParseFailed) => call.ret.code # 0

====
